---- MODULE Spec2Model ----
(***************************************************************************)
(* nativeconfig: the option/value resolution core.                         *)
(*                                                                         *)
(* One IntOption declared on a config type, two MemoryConfig instances of  *)
(* that type, the process environment, and the per-instance cache and      *)
(* lock of BaseConfig; the class-level singleton registry of get_instance; *)
(* and a ChainConfig over two config types with its temporary config.      *)
(*                                                                         *)
(* Python's None and "key not in dict" are modelled explicitly:            *)
(*   - an optional value is a sequence of length 0 (None) or 1 (<<v>>);    *)
(*   - a dict is a function whose DOMAIN is the set of its keys.           *)
(* Native values are integers, Raw and JSON values are strings.            *)
(* An operator that can raise returns a record with an exc field naming    *)
(* the exception class ("" when nothing is raised).                        *)
(***************************************************************************)
EXTENDS Integers, Sequences, FiniteSets, TLC

VARIABLES
    option,       \* the BaseOption declared on the type: choices, env_name, default, allow_cache
    ALLOW_CACHE,  \* BaseConfig.ALLOW_CACHE of the type
    one_shot,     \* BaseOption._is_one_shot_value_set / _one_shot_value
    environ,      \* os.environ, restricted to the option's variable
    config,       \* MemoryConfig._config of each instance
    cache,        \* BaseConfig._cache of each instance
    lock,         \* BaseConfig._lock of each instance: TRUE while acquired
    thread,       \* where each thread is inside the config's locking API
    last,         \* what the last operation was and what it observed
    instances,       \* BaseConfig._instances: config type -> its singleton
    instances_lock,  \* BaseConfig._instances_lock: TRUE while acquired
    caller,          \* where each thread is inside get_instance
    constructed,     \* the objects constructed so far: object id -> its type
    returned,        \* every <<type, object id>> a get_instance call returned
    chain,           \* a ChainConfig: its members' options, dicts and its temporary config
    taken,           \* the text BaseConfig.snapshot() last returned and what the options read then
    classes,         \* the config classes defined so far and the instances constructed from them
    json_file,       \* the file at JSONConfig.JSON_PATH: its content and whether it can be opened
    json_config,     \* a JSONConfig instance over that file: whether it exists, and its _cache
    sample           \* an Option of some kind and a value taken through its conversions

\* The class-level singleton registry and the threads inside get_instance.
registry == <<instances, instances_lock, caller, constructed, returned>>

\* The snapshot, the class registries, the JSON file backend and the option
\* samples: what the operations on a MemoryConfig's option leave alone.
others == <<taken, classes, json_file, json_config, sample>>

vars == <<option, ALLOW_CACHE, one_shot, environ, config, cache, lock, thread, last,
          registry, chain, others>>

(***************************************************************************)
(* Bounds.                                                                 *)
(***************************************************************************)
MaxInt == 2

(***************************************************************************)
(* Optional values.                                                        *)
(***************************************************************************)
None == <<>>
Some(v) == <<v>>
IsNone(x) == x = None
Val(x) == x[1]

(***************************************************************************)
(* Domains.                                                                *)
(***************************************************************************)
Configs == {"c1", "c2"}
Threads == {"t1", "t2"}

OPTION_NAME == "LuckyNumber"
CONFIG_VERSION_OPTION_NAME == "ConfigVersion"
CONFIG_VERSION == "1.0"
ENV_NAME == "LUCKY_NUMBER"

PythonInts == 1..MaxInt
\* Native values handed to the writers: None or an int.
PythonValues == {None} \cup {Some(n) : n \in PythonInts}

\* Raw strings a backend may hold for the option.
RawValues == {ToString(n) : n \in PythonInts} \cup {"NotANumber"}
\* JSON texts the environment variable may hold.
JsonValues == {ToString(n) : n \in PythonInts} \cup {"null", "["}

\* Dict helpers.
DictSet(d, k, v) == [x \in (DOMAIN d) \cup {k} |-> IF x = k THEN v ELSE d[x]]
DictPop(d, k) == [x \in (DOMAIN d) \ {k} |-> d[x]]
DictGet(d, k) == IF k \in DOMAIN d THEN Some(d[k]) ELSE None

Ok(v) == [exc |-> "", v |-> v]
Raise(e) == [exc |-> e, v |-> None]

(***************************************************************************)
(* IntOption: validation and the three-way conversion.                     *)
(***************************************************************************)

\* BaseOption.validate
BaseOption_validate(opt, python_value) ==
    IF IsNone(python_value) THEN ""
    ELSE IF ~IsNone(opt.choices) /\ Val(python_value) \notin Val(opt.choices)
         THEN "ValidationError"
         ELSE ""

\* IntOption.validate: the isinstance check runs after the base check
\* returns, so None does not pass it. Every other native value of the model
\* is an int.
validate(opt, python_value) ==
    IF BaseOption_validate(opt, python_value) # "" THEN "ValidationError"
    ELSE IF IsNone(python_value) THEN "ValidationError"
    ELSE ""

\* BaseOption.serialize: str(python_value)
serialize(python_value) == ToString(python_value)

\* int(raw_value) on the decimal texts of the model
int(text) ==
    IF \E n \in PythonInts : ToString(n) = text
    THEN Ok(CHOOSE n \in PythonInts : ToString(n) = text)
    ELSE Raise("ValueError")

\* IntOption.deserialize
deserialize(raw_value) ==
    IF int(raw_value).exc = "" THEN Ok(Some(int(raw_value).v))
    ELSE Raise("DeserializationError")

\* BaseOption.serialize_json: json.dumps(python_value)
serialize_json(python_value) ==
    IF IsNone(python_value) THEN "null" ELSE ToString(Val(python_value))

\* json.loads on the JSON texts of the model: null, an integer, or malformed
json_loads(json_value) ==
    IF json_value = "null" THEN Ok(None)
    ELSE IF int(json_value).exc = "" THEN Ok(Some(int(json_value).v))
    ELSE Raise("ValueError")

\* IntOption.deserialize_json
deserialize_json(json_value) ==
    IF json_loads(json_value).exc # "" THEN Raise("DeserializationError")
    ELSE IF IsNone(json_loads(json_value).v) THEN Ok(None)
    ELSE Ok(json_loads(json_value).v)

(***************************************************************************)
(* MemoryConfig: the cache-free primitives over the instance's dict.       *)
(***************************************************************************)

\* MemoryConfig.get_value_cache_free
get_value_cache_free(cfgdict, name) == DictGet(cfgdict, name)

\* MemoryConfig.set_value_cache_free
set_value_cache_free(cfgdict, name, raw_value) ==
    IF ~IsNone(raw_value) THEN DictSet(cfgdict, name, Val(raw_value))
    ELSE DictPop(cfgdict, name)

\* Mutant of del_value_cache_free: the key is left in the dict.
del_value_cache_free_keeps_key(cfgdict, name) == cfgdict

\* MemoryConfig.del_value_cache_free
del_value_cache_free(cfgdict, name) == DictPop(cfgdict, name)

(***************************************************************************)
(* BaseConfig: the lock-free accessors. Each returns the instance's new    *)
(* dict and cache, the value returned, and how many times each cache-free  *)
(* primitive ran.                                                          *)
(***************************************************************************)

\* Mutant of get_value_lock_free: the name's cache entry is looked up but a
\* cached known-absent marker is treated as a miss.
get_value_lock_free_rereads_absent(cfgdict, cch, name, allow_cache) ==
    IF allow_cache /\ name \in DOMAIN cch /\ ~IsNone(cch[name])
    THEN [config |-> cfgdict, cache |-> cch, v |-> cch[name],
          gets |-> 0, sets |-> 0, dels |-> 0]
    ELSE [config |-> cfgdict,
          cache |-> DictSet(cch, name, get_value_cache_free(cfgdict, name)),
          v |-> get_value_cache_free(cfgdict, name),
          gets |-> 1, sets |-> 0, dels |-> 0]

\* BaseConfig.get_value_lock_free
get_value_lock_free(cfgdict, cch, name, allow_cache) ==
    IF allow_cache /\ name \in DOMAIN cch
    THEN [config |-> cfgdict, cache |-> cch, v |-> cch[name],
          gets |-> 0, sets |-> 0, dels |-> 0]
    ELSE [config |-> cfgdict,
          cache |-> DictSet(cch, name, get_value_cache_free(cfgdict, name)),
          v |-> get_value_cache_free(cfgdict, name),
          gets |-> 1, sets |-> 0, dels |-> 0]

\* Mutant of set_value_lock_free: the cached copy is not compared.
set_value_lock_free_always_writes(cfgdict, cch, name, raw_value, allow_cache) ==
    [config |-> set_value_cache_free(cfgdict, name, raw_value),
     cache |-> DictSet(cch, name, raw_value), v |-> None,
     gets |-> 0, sets |-> 1, dels |-> 0]

\* BaseConfig.set_value_lock_free
set_value_lock_free(cfgdict, cch, name, raw_value, allow_cache) ==
    IF ~allow_cache \/ name \notin DOMAIN cch \/ cch[name] # raw_value
    THEN [config |-> set_value_cache_free(cfgdict, name, raw_value),
          cache |-> DictSet(cch, name, raw_value), v |-> None,
          gets |-> 0, sets |-> 1, dels |-> 0]
    ELSE [config |-> cfgdict, cache |-> cch, v |-> None,
          gets |-> 0, sets |-> 0, dels |-> 0]

\* BaseConfig.del_value_lock_free
del_value_lock_free(cfgdict, cch, name, allow_cache) ==
    IF ~allow_cache \/ name \notin DOMAIN cch \/ ~IsNone(cch[name])
    THEN [config |-> del_value_cache_free(cfgdict, name),
          cache |-> DictSet(cch, name, None), v |-> None,
          gets |-> 0, sets |-> 0, dels |-> 1]
    ELSE [config |-> cfgdict, cache |-> cch, v |-> None,
          gets |-> 0, sets |-> 0, dels |-> 0]

\* BaseConfig.resolve_value: logs and returns the option's default
resolve_value(opt, exc, raw_or_json_value, source) == Ok(opt.default)

(***************************************************************************)
(* BaseOption: access through a config instance.                           *)
(***************************************************************************)

\* self._allow_cache or (hasattr(...) and enclosing_self.ALLOW_CACHE)
allow_cache_of(opt, cls_allow_cache) ==
    IF ~IsNone(opt.allow_cache) /\ Val(opt.allow_cache) THEN TRUE
    ELSE cls_allow_cache

\* Mutant of Caught: the except clause names DeserializationError only.
CaughtDeserializationOnly == {"DeserializationError"}

\* The exception classes read_value's two helpers catch.
Caught == {"DeserializationError", "ValidationError"}

\* The except clause shared by make_python_value_from_json_value and
\* make_python_value_from_raw_value: route to the resolver, or let the
\* exception through.
on_error(opt, exc, text, source) ==
    IF exc \in Caught
    THEN IF resolve_value(opt, exc, text, source).exc = ""
         THEN [value |-> resolve_value(opt, exc, text, source).v,
               source |-> "resolver", resolver |-> <<source>>, exc |-> ""]
         ELSE [value |-> None, source |-> "", resolver |-> <<source>>,
               exc |-> resolve_value(opt, exc, text, source).exc]
    ELSE [value |-> None, source |-> "", resolver |-> <<>>, exc |-> exc]

\* read_value.make_python_value_from_json_value
make_python_value_from_json_value(opt, json_value, source) ==
    LET d == deserialize_json(json_value) IN
    IF d.exc # "" THEN on_error(opt, d.exc, json_value, source)
    ELSE IF validate(opt, d.v) # "" THEN on_error(opt, validate(opt, d.v), json_value, source)
    ELSE [value |-> d.v, source |-> source, resolver |-> <<>>, exc |-> ""]

\* read_value.make_python_value_from_raw_value
make_python_value_from_raw_value(opt, raw_value, source) ==
    LET d == deserialize(raw_value) IN
    IF d.exc # "" THEN on_error(opt, d.exc, raw_value, source)
    ELSE IF validate(opt, d.v) # "" THEN on_error(opt, validate(opt, d.v), raw_value, source)
    ELSE [value |-> d.v, source |-> source, resolver |-> <<>>, exc |-> ""]

Nothing == [value |-> None, source |-> "", resolver |-> <<>>, exc |-> ""]

\* BaseOption.read_value. The result carries the value and its source, the
\* instance's cache after the read, the number of backend reads, the sources
\* the resolver was invoked for, and the exception that escaped, if any.
read_value(opt, shot, env, cfgdict, cch, cls_allow_cache) ==
    LET fromEnv ==
            IF ~IsNone(opt.env_name) /\ Val(opt.env_name) \in DOMAIN env
            THEN make_python_value_from_json_value(opt, env[Val(opt.env_name)], "env")
            ELSE Nothing
        got == get_value_lock_free(cfgdict, cch, opt.name,
                                   allow_cache_of(opt, cls_allow_cache))
        fromConfig ==
            IF ~IsNone(got.v)
            THEN make_python_value_from_raw_value(opt, Val(got.v), "config")
            ELSE Nothing
    IN
    IF fromEnv.exc # ""
    THEN [value |-> None, source |-> "", cache |-> cch, gets |-> 0,
          resolver |-> fromEnv.resolver, exc |-> fromEnv.exc]
    ELSE IF ~IsNone(fromEnv.value)
    THEN [value |-> fromEnv.value, source |-> fromEnv.source, cache |-> cch,
          gets |-> 0, resolver |-> fromEnv.resolver, exc |-> ""]
    ELSE IF shot.is_set
    THEN IF ~IsNone(shot.value)
         THEN [value |-> shot.value, source |-> "one_shot", cache |-> cch,
               gets |-> 0, resolver |-> fromEnv.resolver, exc |-> ""]
         ELSE [value |-> opt.default, source |-> "default", cache |-> cch,
               gets |-> 0, resolver |-> fromEnv.resolver, exc |-> ""]
    ELSE IF fromConfig.exc # ""
    THEN [value |-> None, source |-> "", cache |-> got.cache, gets |-> got.gets,
          resolver |-> fromEnv.resolver \o fromConfig.resolver,
          exc |-> fromConfig.exc]
    ELSE IF ~IsNone(fromConfig.value)
    THEN [value |-> fromConfig.value, source |-> fromConfig.source,
          cache |-> got.cache, gets |-> got.gets,
          resolver |-> fromEnv.resolver \o fromConfig.resolver, exc |-> ""]
    ELSE [value |-> opt.default, source |-> "default", cache |-> got.cache,
          gets |-> got.gets,
          resolver |-> fromEnv.resolver \o fromConfig.resolver, exc |-> ""]

NoShot == [is_set |-> FALSE, value |-> None]

\* Mutant of set_one_shot_value: None unstages instead of staging None.
set_one_shot_value_none_unstages(opt, shot, python_value) ==
    IF ~IsNone(python_value) /\ validate(opt, python_value) # ""
    THEN [one_shot |-> shot, exc |-> validate(opt, python_value)]
    ELSE [one_shot |-> [is_set |-> ~IsNone(python_value), value |-> python_value],
          exc |-> ""]

\* BaseOption.set_one_shot_value
set_one_shot_value(opt, shot, python_value) ==
    IF ~IsNone(python_value) /\ validate(opt, python_value) # ""
    THEN [one_shot |-> shot, exc |-> validate(opt, python_value)]
    ELSE [one_shot |-> [is_set |-> TRUE, value |-> python_value], exc |-> ""]

\* BaseOption.fget
fget(opt, shot, env, cfgdict, cch, cls_allow_cache) ==
    read_value(opt, shot, env, cfgdict, cch, cls_allow_cache)

\* BaseOption.fdel
fdel(opt, shot, cfgdict, cch, cls_allow_cache) ==
    LET r == del_value_lock_free(cfgdict, cch, opt.name,
                                 allow_cache_of(opt, cls_allow_cache))
    IN [one_shot |-> NoShot, config |-> r.config, cache |-> r.cache,
        sets |-> r.sets, dels |-> r.dels, exc |-> ""]

\* Mutant of fset: the staged one-shot value is not reset.
fset_keeps_one_shot(opt, shot, cfgdict, cch, cls_allow_cache, python_value) ==
    IF ~IsNone(python_value)
    THEN IF validate(opt, python_value) # ""
         THEN [one_shot |-> shot, config |-> cfgdict, cache |-> cch,
               sets |-> 0, dels |-> 0, exc |-> validate(opt, python_value)]
         ELSE LET r == set_value_lock_free(cfgdict, cch, opt.name,
                                           Some(serialize(Val(python_value))),
                                           allow_cache_of(opt, cls_allow_cache))
              IN [one_shot |-> shot, config |-> r.config, cache |-> r.cache,
                  sets |-> r.sets, dels |-> r.dels, exc |-> ""]
    ELSE fdel(opt, shot, cfgdict, cch, cls_allow_cache)

\* Mutant of fset: None is validated and stored like any other value
\* instead of deleting.
fset_without_delete(opt, shot, cfgdict, cch, cls_allow_cache, python_value) ==
    IF validate(opt, python_value) # ""
    THEN [one_shot |-> NoShot, config |-> cfgdict, cache |-> cch,
          sets |-> 0, dels |-> 0, exc |-> validate(opt, python_value)]
    ELSE LET r == set_value_lock_free(cfgdict, cch, opt.name,
                                      Some(serialize(Val(python_value))),
                                      allow_cache_of(opt, cls_allow_cache))
         IN [one_shot |-> NoShot, config |-> r.config, cache |-> r.cache,
             sets |-> r.sets, dels |-> r.dels, exc |-> ""]

\* Mutant of fset: the value is stored without being validated.
fset_without_validation(opt, shot, cfgdict, cch, cls_allow_cache, python_value) ==
    IF ~IsNone(python_value)
    THEN LET r == set_value_lock_free(cfgdict, cch, opt.name,
                                      Some(serialize(Val(python_value))),
                                      allow_cache_of(opt, cls_allow_cache))
         IN [one_shot |-> NoShot, config |-> r.config, cache |-> r.cache,
             sets |-> r.sets, dels |-> r.dels, exc |-> ""]
    ELSE fdel(opt, NoShot, cfgdict, cch, cls_allow_cache)

\* BaseOption.fset
fset(opt, shot, cfgdict, cch, cls_allow_cache, python_value) ==
    IF ~IsNone(python_value)
    THEN IF validate(opt, python_value) # ""
         THEN [one_shot |-> NoShot, config |-> cfgdict, cache |-> cch,
               sets |-> 0, dels |-> 0, exc |-> validate(opt, python_value)]
         ELSE LET r == set_value_lock_free(cfgdict, cch, opt.name,
                                           Some(serialize(Val(python_value))),
                                           allow_cache_of(opt, cls_allow_cache))
              IN [one_shot |-> NoShot, config |-> r.config, cache |-> r.cache,
                  sets |-> r.sets, dels |-> r.dels, exc |-> ""]
    ELSE fdel(opt, NoShot, cfgdict, cch, cls_allow_cache)

\* What a by-name writer leaves when it raises before reaching the option.
Untouched(shot, cfgdict, cch, exc) ==
    [one_shot |-> shot, config |-> cfgdict, cache |-> cch,
     sets |-> 0, dels |-> 0, exc |-> exc]

\* BaseConfig.set_value_for_option_name
set_value_for_option_name(opt, shot, cfgdict, cch, cls_allow_cache, python_value) ==
    fset(opt, shot, cfgdict, cch, cls_allow_cache, python_value)

\* BaseConfig.set_raw_value_for_option_name
set_raw_value_for_option_name(opt, shot, cfgdict, cch, cls_allow_cache, raw_value) ==
    IF deserialize(raw_value).exc # ""
    THEN Untouched(shot, cfgdict, cch, deserialize(raw_value).exc)
    ELSE fset(opt, shot, cfgdict, cch, cls_allow_cache, deserialize(raw_value).v)

\* BaseConfig.set_json_value_for_option_name
set_json_value_for_option_name(opt, shot, cfgdict, cch, cls_allow_cache, json_value) ==
    IF deserialize_json(json_value).exc # ""
    THEN Untouched(shot, cfgdict, cch, deserialize_json(json_value).exc)
    ELSE fset(opt, shot, cfgdict, cch, cls_allow_cache, deserialize_json(json_value).v)

\* BaseConfig.del_value_for_option_name
del_value_for_option_name(opt, shot, cfgdict, cch, cls_allow_cache) ==
    fdel(opt, shot, cfgdict, cch, cls_allow_cache)

\* BaseConfig.set_one_shot_value_for_option_name
set_one_shot_value_for_option_name(opt, shot, python_value) ==
    set_one_shot_value(opt, shot, python_value)

(***************************************************************************)
(* State.                                                                  *)
(***************************************************************************)

EmptyDict == [x \in {} |-> None]

\* The declarations BaseOption.__init__ accepts: choices non-empty and valid,
\* the default valid, env_name non-empty.
OptionDecls ==
    {d \in [name : {OPTION_NAME},
            choices : {None, Some({1})},
            env_name : {None, Some(ENV_NAME)},
            default : {None, Some(1)},
            allow_cache : {None, Some(TRUE), Some(FALSE)}] :
        /\ (~IsNone(d.choices) => \A ch \in Val(d.choices) : validate(d, Some(ch)) = "")
        /\ (~IsNone(d.default) => validate(d, d.default) = "")}

\* IntOption('LuckyNumber')
PlainDecl ==
    [name |-> OPTION_NAME, choices |-> None, env_name |-> None,
     default |-> None, allow_cache |-> None]

\* What an operation observed: its result (value, source, exc), how often it
\* ran each backend primitive and the resolver, and, for a writer, what the
\* backend held and whether a one-shot value was staged before it ran.
NoBefore == [stored |-> None, is_set |-> FALSE]

Observed(op, c, arg, value, source, gets, sets, dels, resolver, exc) ==
    [op |-> op, cfg |-> c, arg |-> arg, value |-> value, source |-> source,
     gets |-> gets, sets |-> sets, dels |-> dels, resolver |-> resolver,
     exc |-> exc, before |-> NoBefore]

\* A thread outside the config's locking API.
Idle == [pc |-> "idle", scoped |-> FALSE, calls |-> 0, exc |-> ""]

\* Config types with a singleton each.
Types == {"AConfig", "BConfig"}

\* A thread outside get_instance.
NotCalling == [pc |-> "idle", cls |-> "", instance |-> None]

\* _instances = {}, _instances_lock = threading.Lock(), nothing constructed.
InitRegistry ==
    /\ instances = EmptyDict
    /\ instances_lock = FALSE
    /\ caller = [t \in Threads |-> NotCalling]
    /\ constructed = <<>>
    /\ returned = {}

\* No ChainConfig has been built.
NoChain == <<>>

\* No snapshot taken, no class defined beyond the option's type, no JSON
\* file or JSONConfig, no sample drawn.
NoSnapshot == <<>>
NoClasses == <<>>
NoJsonFile == <<>>
NoJsonConfig == <<>>
NoSample == <<>>

InitOthers ==
    /\ taken = NoSnapshot
    /\ classes = NoClasses
    /\ json_file = NoJsonFile
    /\ json_config = NoJsonConfig
    /\ sample = NoSample

\* BaseConfig.__init__ on a MemoryConfig() of each instance: an empty dict,
\* the cache copied from it, a fresh lock, then migrate() storing the
\* version marker.
InitConfigs ==
    /\ config = [c \in Configs |-> (CONFIG_VERSION_OPTION_NAME :> CONFIG_VERSION)]
    /\ cache = [c \in Configs |-> (CONFIG_VERSION_OPTION_NAME :> Some(CONFIG_VERSION))]
    /\ lock = [c \in Configs |-> FALSE]
    /\ thread = [t \in Threads |-> Idle]
    /\ one_shot = NoShot
    /\ environ = EmptyDict
    /\ last = Observed("init", "", None, None, "", 0, 0, 0, <<>>, "")
    /\ InitRegistry

Init ==
    /\ option \in OptionDecls
    /\ ALLOW_CACHE \in BOOLEAN
    /\ InitConfigs
    /\ InitOthers
    /\ chain = NoChain

\* What reading the option through instance c returns in the current state.
ReadOf(c) == fget(option, one_shot, environ, config[c], cache[c], ALLOW_CACHE)

\* Apply a writer's outcome w to instance c.
Written(op, c, arg, w) ==
    /\ one_shot' = w.one_shot
    /\ config' = [config EXCEPT ![c] = w.config]
    /\ cache' = [cache EXCEPT ![c] = w.cache]
    /\ last' = [Observed(op, c, arg, None, "", 0, w.sets, w.dels, <<>>, w.exc)
                   EXCEPT !.before = [stored |-> DictGet(config[c], OPTION_NAME),
                                      is_set |-> one_shot.is_set]]
    /\ UNCHANGED <<registry, chain, others, option, ALLOW_CACHE, environ, lock, thread>>

\* Mutant of Read: a read that resolves from the default stores it.
Read_stores_default(c) ==
    /\ cache' = [cache EXCEPT ![c] = ReadOf(c).cache]
    /\ config' = IF ReadOf(c).source = "default" /\ ~IsNone(ReadOf(c).value)
                 THEN [config EXCEPT ![c] = DictSet(@, OPTION_NAME,
                                                    serialize(Val(ReadOf(c).value)))]
                 ELSE config
    /\ last' = Observed("read", c, None, ReadOf(c).value, ReadOf(c).source,
                        ReadOf(c).gets, 0, 0, ReadOf(c).resolver, ReadOf(c).exc)
    /\ UNCHANGED <<registry, chain, others, option, ALLOW_CACHE, one_shot, environ, lock, thread>>

\* c.lucky_number
Read(c) ==
    /\ cache' = [cache EXCEPT ![c] = ReadOf(c).cache]
    /\ last' = Observed("read", c, None, ReadOf(c).value, ReadOf(c).source,
                        ReadOf(c).gets, 0, 0, ReadOf(c).resolver, ReadOf(c).exc)
    /\ UNCHANGED <<registry, chain, others, option, ALLOW_CACHE, one_shot, environ, config, lock, thread>>

\* c.lucky_number = python_value, c.set_value_for_option_name(name, python_value)
Write(c, python_value) ==
    Written("write", c, python_value,
            set_value_for_option_name(option, one_shot, config[c], cache[c],
                                      ALLOW_CACHE, python_value))

\* c.set_json_value_for_option_name(name, json_value)
WriteJson(c, json_value) ==
    Written("write_json", c, Some(json_value),
            set_json_value_for_option_name(option, one_shot, config[c], cache[c],
                                           ALLOW_CACHE, json_value))

\* c.set_raw_value_for_option_name(name, raw_value)
WriteRaw(c, raw_value) ==
    Written("write_raw", c, Some(raw_value),
            set_raw_value_for_option_name(option, one_shot, config[c], cache[c],
                                          ALLOW_CACHE, raw_value))

\* del c.lucky_number, c.del_value_for_option_name(name)
Delete(c) ==
    Written("delete", c, None,
            del_value_for_option_name(option, one_shot, config[c], cache[c],
                                      ALLOW_CACHE))

\* c.set_one_shot_value_for_option_name(name, python_value)
SetOneShot(c, python_value) ==
    LET w == set_one_shot_value_for_option_name(option, one_shot, python_value) IN
    /\ one_shot' = w.one_shot
    /\ last' = Observed("one_shot", c, python_value, None, "", 0, 0, 0, <<>>, w.exc)
    /\ UNCHANGED <<registry, chain, others, option, ALLOW_CACHE, environ, config, cache, lock, thread>>

\* c.set_value(name, raw_value, allow_cache=...) from a single thread: the raw
\* entry point, which stores any string, parsable or not.
SetValue(c, raw_value, allow_cache) ==
    LET r == set_value_lock_free(config[c], cache[c], OPTION_NAME,
                                 Some(raw_value), allow_cache) IN
    /\ config' = [config EXCEPT ![c] = r.config]
    /\ cache' = [cache EXCEPT ![c] = r.cache]
    /\ last' = Observed("set_value", c, Some(raw_value), None, "", 0, r.sets, r.dels,
                        <<>>, "")
    /\ UNCHANGED <<registry, chain, others, option, ALLOW_CACHE, one_shot, environ, lock, thread>>

\* c.get_value(name, allow_cache=...) from a single thread
GetValue(c, allow_cache) ==
    LET r == get_value_lock_free(config[c], cache[c], OPTION_NAME, allow_cache) IN
    /\ cache' = [cache EXCEPT ![c] = r.cache]
    /\ last' = Observed("get_value", c, allow_cache, r.v, "", r.gets, 0, 0, <<>>, "")
    /\ UNCHANGED <<registry, chain, others, option, ALLOW_CACHE, one_shot, environ, config, lock, thread>>

\* c.del_value(name, allow_cache=...) from a single thread
DelValue(c, allow_cache) ==
    LET r == del_value_lock_free(config[c], cache[c], OPTION_NAME, allow_cache) IN
    /\ config' = [config EXCEPT ![c] = r.config]
    /\ cache' = [cache EXCEPT ![c] = r.cache]
    /\ last' = Observed("del_value", c, allow_cache, None, "", 0, 0, r.dels, <<>>, "")
    /\ UNCHANGED <<registry, chain, others, option, ALLOW_CACHE, one_shot, environ, lock, thread>>

\* os.environ[ENV_NAME] = json_value
Setenv(json_value) ==
    /\ environ' = DictSet(environ, ENV_NAME, json_value)
    /\ last' = Observed("setenv", "", Some(json_value), None, "", 0, 0, 0, <<>>, "")
    /\ UNCHANGED <<registry, chain, others, option, ALLOW_CACHE, one_shot, config, cache, lock, thread>>

\* os.environ.pop(ENV_NAME, None)
Unsetenv ==
    /\ environ' = DictPop(environ, ENV_NAME)
    /\ last' = Observed("unsetenv", "", None, None, "", 0, 0, 0, <<>>, "")
    /\ UNCHANGED <<registry, chain, others, option, ALLOW_CACHE, one_shot, config, cache, lock, thread>>

(***************************************************************************)
(* Spec: one config instance used from one thread, with every source of    *)
(* the option's value changing.                                            *)
(***************************************************************************)
Main == "c1"

Next ==
    \/ Read(Main)
    \/ \E v \in PythonValues : Write(Main, v)
    \/ \E j \in JsonValues : WriteJson(Main, j)
    \/ \E r \in RawValues : WriteRaw(Main, r)
    \/ Delete(Main)
    \/ \E v \in PythonValues : SetOneShot(Main, v)
    \/ \E r \in RawValues, a \in BOOLEAN : SetValue(Main, r, a)
    \/ \E a \in BOOLEAN : GetValue(Main, a)
    \/ \E a \in BOOLEAN : DelValue(Main, a)
    \/ \E j \in JsonValues : Setenv(j)
    \/ Unsetenv

Spec == Init /\ [][Next]_vars

(***************************************************************************)
(* SpecTwo: two instances of the type, each with its own dict, cache and   *)
(* lock, sharing the Option object that the class attribute holds.         *)
(***************************************************************************)
NextTwo ==
    \/ \E c \in Configs : Read(c)
    \/ \E c \in Configs, v \in PythonValues : Write(c, v)
    \/ \E c \in Configs : Delete(c)
    \/ \E c \in Configs, v \in PythonValues : SetOneShot(c, v)

SpecTwo == Init /\ [][NextTwo]_vars

(***************************************************************************)
(* SpecThreads: threads using one config instance through its locking      *)
(* API. A thread either calls a lock-guarded entry point (get_value,       *)
(* set_value, del_value) or opens a scoped block (with config:) and makes  *)
(* a batch of lock-free calls inside it. The cache-free primitives of      *)
(* BaseConfig are abstract: a backend's primitive may raise, and so may    *)
(* the caller's own code inside a scoped block.                            *)
(*                                                                         *)
(*   idle -> acquire -> lock_free -> release -> idle        entry point    *)
(*   idle -> acquire -> body <-> lock_free, body -> release -> idle  block *)
(***************************************************************************)
MaxBatch == 2

Kinds == {"get", "set", "del"}

\* Mutant of acquire: the entry point does not wait for the lock.
acquire_without_waiting(lk, c) == [enabled |-> TRUE, lock |-> [lk EXCEPT ![c] = TRUE]]

\* threading.Lock.acquire(): blocks while the lock is held
acquire(lk, c) == [enabled |-> ~lk[c], lock |-> [lk EXCEPT ![c] = TRUE]]

\* Mutant of release: the lock is released on the normal path only.
release_unless_raised(lk, c, exc) ==
    IF exc = "" THEN [lk EXCEPT ![c] = FALSE] ELSE lk

\* threading.Lock.release(), as the with statement of an entry point and
\* BaseConfig.__exit__ run it on every exit path, with or without an
\* exception in flight
release(lk, c, exc) == [lk EXCEPT ![c] = FALSE]

\* The lock-free accessor an entry point or a scoped block runs.
lock_free(kind, cfgdict, cch, name, raw_value, allow_cache) ==
    IF kind = "get" THEN get_value_lock_free(cfgdict, cch, name, allow_cache)
    ELSE IF kind = "set"
         THEN set_value_lock_free(cfgdict, cch, name, raw_value, allow_cache)
         ELSE del_value_lock_free(cfgdict, cch, name, allow_cache)

\* get_value / set_value / del_value is called: the thread reaches
\* "with self._lock:".
CallEntryPoint(t) ==
    /\ thread[t].pc = "idle"
    /\ thread' = [thread EXCEPT ![t] = [Idle EXCEPT !.pc = "acquire"]]
    /\ UNCHANGED <<registry, chain, others, option, ALLOW_CACHE, one_shot, environ, config, cache, lock, last>>

\* "with config:" is entered: the thread reaches BaseConfig.__enter__.
EnterBlock(t) ==
    /\ thread[t].pc = "idle"
    /\ thread' = [thread EXCEPT ![t] = [Idle EXCEPT !.pc = "acquire", !.scoped = TRUE]]
    /\ UNCHANGED <<registry, chain, others, option, ALLOW_CACHE, one_shot, environ, config, cache, lock, last>>

\* The lock is taken, by "with self._lock:" or by __enter__.
Acquire(t) ==
    /\ thread[t].pc \in {"acquire", "reacquire"}
    /\ acquire(lock, Main).enabled
    /\ lock' = acquire(lock, Main).lock
    /\ thread' = [thread EXCEPT ![t].pc =
                     IF thread[t].scoped /\ thread[t].pc = "acquire" THEN "body"
                     ELSE "lock_free"]
    /\ UNCHANGED <<registry, chain, others, option, ALLOW_CACHE, one_shot, environ, config, cache, last>>

\* Inside the block, the next lock-free call of the batch starts.
BodyCall(t) ==
    /\ thread[t].pc = "body"
    /\ thread[t].calls < MaxBatch
    /\ thread' = [thread EXCEPT ![t].pc = "lock_free", ![t].calls = @ + 1]
    /\ UNCHANGED <<registry, chain, others, option, ALLOW_CACHE, one_shot, environ, config, cache, lock, last>>

\* The lock-free accessor runs to its end.
RunLockFree(t, kind, raw_value, allow_cache) ==
    LET r == lock_free(kind, config[Main], cache[Main], OPTION_NAME,
                       Some(raw_value), allow_cache) IN
    /\ thread[t].pc = "lock_free"
    /\ config' = [config EXCEPT ![Main] = r.config]
    /\ cache' = [cache EXCEPT ![Main] = r.cache]
    /\ thread' = [thread EXCEPT ![t].pc = IF thread[t].scoped THEN "body"
                                          ELSE "release"]
    /\ UNCHANGED <<registry, chain, others, option, ALLOW_CACHE, one_shot, environ, lock, last>>

\* The backend's primitive raises: the accessor stops before it touches the
\* cache and the exception leaves the with statement.
PrimitiveRaises(t) ==
    /\ thread[t].pc = "lock_free"
    /\ thread' = [thread EXCEPT ![t].pc = "release", ![t].exc = "Exception"]
    /\ UNCHANGED <<registry, chain, others, option, ALLOW_CACHE, one_shot, environ, config, cache, lock, last>>

\* Inside the block the caller calls a lock-guarded entry point of the same
\* config: get_value, set_value, del_value, or the option attribute read or
\* written (fget / fset / fdel, which call the getter, setter or deleter). The
\* thread reaches "with self._lock:" while it holds the lock.
EntryPoints == {"get_value", "set_value", "del_value", "fget", "fset", "fdel"}

Reenter(t, entry_point) ==
    /\ thread[t].pc = "body"
    /\ thread' = [thread EXCEPT ![t].pc = "reacquire"]
    /\ last' = Observed("reenter", Main, Some(entry_point), None, "", 0, 0, 0, <<>>, "")
    /\ UNCHANGED <<registry, chain, others, option, ALLOW_CACHE, one_shot, environ, config, cache, lock>>

\* The block's body ends, normally or with the caller's own exception.
BodyEnds(t, exc) ==
    /\ thread[t].pc = "body"
    /\ thread' = [thread EXCEPT ![t].pc = "release", ![t].exc = exc]
    /\ UNCHANGED <<registry, chain, others, option, ALLOW_CACHE, one_shot, environ, config, cache, lock, last>>

\* The with statement of the entry point, or BaseConfig.__exit__, releases
\* the lock; the call returns or the exception propagates.
Release(t) ==
    /\ thread[t].pc = "release"
    /\ lock' = release(lock, Main, thread[t].exc)
    /\ thread' = [thread EXCEPT ![t] = Idle]
    /\ last' = Observed(IF thread[t].scoped THEN "scoped_block" ELSE "entry_point",
                        Main, Some(t), None, "", 0, 0, 0, <<>>, thread[t].exc)
    /\ UNCHANGED <<registry, chain, others, option, ALLOW_CACHE, one_shot, environ, config, cache>>

InitThreads ==
    /\ option = PlainDecl
    /\ ALLOW_CACHE = FALSE
    /\ InitConfigs
    /\ InitOthers
    /\ chain = NoChain

\* The steps a thread takes while it holds the lock.
Holding(t) ==
    \/ BodyCall(t)
    \/ \E k \in Kinds, r \in RawValues, a \in BOOLEAN : RunLockFree(t, k, r, a)
    \/ PrimitiveRaises(t)
    \/ \E e \in {"", "Exception"} : BodyEnds(t, e)
    \/ Release(t)

NextThreads ==
    \/ \E t \in Threads : CallEntryPoint(t)
    \/ \E t \in Threads : EnterBlock(t)
    \/ \E t \in Threads : Acquire(t)
    \/ \E t \in Threads : Holding(t)

\* Python runs every thread that is not blocked: a thread holding the lock
\* goes on to the end of its entry point or block, and a thread whose
\* acquire() can succeed takes the lock.
SpecThreads ==
    /\ InitThreads
    /\ [][NextThreads]_vars
    /\ \A t \in Threads : WF_vars(Holding(t)) /\ WF_vars(Acquire(t))

(***************************************************************************)
(* SpecReentry: the threads of SpecThreads, whose scoped blocks may also    *)
(* call the config's lock-guarded entry points.                            *)
(***************************************************************************)
NextReentry ==
    \/ NextThreads
    \/ \E t \in Threads, e \in EntryPoints : Reenter(t, e)

SpecReentry == InitThreads /\ [][NextReentry]_vars

(***************************************************************************)
(* SpecSingleton: threads calling get_instance on config types.            *)
(*                                                                         *)
(*   with cls._instances_lock:                     acquire                 *)
(*       instance = cls._instances.get(cls, None)  lookup                  *)
(*       if instance is None:                                              *)
(*           instance = cls()                      construct               *)
(*           cls._instances[cls] = instance        store                   *)
(*       return cls._instances.get(cls, None)      return, lock released   *)
(***************************************************************************)
\* Everything get_instance leaves alone.
outside_registry ==
    <<option, ALLOW_CACHE, one_shot, environ, config, cache, lock, thread, last, chain, others>>

\* Mutant of instances_lock_acquire: get_instance does not wait for the lock.
instances_lock_acquire_without_waiting(lk) == [enabled |-> TRUE, lock |-> TRUE]

\* cls._instances_lock.acquire(): one threading.Lock shared by every type
instances_lock_acquire(lk) == [enabled |-> ~lk, lock |-> TRUE]

\* cls.get_instance() is called: the thread reaches "with cls._instances_lock:".
GetInstance(t, cls) ==
    /\ caller[t].pc = "idle"
    /\ caller' = [caller EXCEPT ![t] = [NotCalling EXCEPT !.pc = "acquire", !.cls = cls]]
    /\ UNCHANGED <<instances, instances_lock, constructed, returned, outside_registry>>

InstancesLockAcquire(t) ==
    /\ caller[t].pc = "acquire"
    /\ instances_lock_acquire(instances_lock).enabled
    /\ instances_lock' = instances_lock_acquire(instances_lock).lock
    /\ caller' = [caller EXCEPT ![t].pc = "lookup"]
    /\ UNCHANGED <<instances, constructed, returned, outside_registry>>

\* instance = cls._instances.get(cls, None); if instance is None: ...
Lookup(t) ==
    /\ caller[t].pc = "lookup"
    /\ caller' = [caller EXCEPT
                    ![t].instance = DictGet(instances, caller[t].cls),
                    ![t].pc = IF IsNone(DictGet(instances, caller[t].cls))
                              THEN "construct" ELSE "return"]
    /\ UNCHANGED <<instances, instances_lock, constructed, returned, outside_registry>>

\* instance = cls(): the constructor runs and yields a new object.
Construct(t) ==
    /\ caller[t].pc = "construct"
    /\ constructed' = Append(constructed, caller[t].cls)
    /\ caller' = [caller EXCEPT ![t].instance = Some(Len(constructed) + 1),
                                ![t].pc = "store"]
    /\ UNCHANGED <<instances, instances_lock, returned, outside_registry>>

\* cls._instances[cls] = instance
Store(t) ==
    /\ caller[t].pc = "store"
    /\ instances' = DictSet(instances, caller[t].cls, Val(caller[t].instance))
    /\ caller' = [caller EXCEPT ![t].pc = "return"]
    /\ UNCHANGED <<instances_lock, constructed, returned, outside_registry>>

\* return cls._instances.get(cls, None); the with statement releases the lock.
Return(t) ==
    /\ caller[t].pc = "return"
    /\ returned' = returned \cup {<<caller[t].cls, DictGet(instances, caller[t].cls)>>}
    /\ instances_lock' = FALSE
    /\ caller' = [caller EXCEPT ![t] = NotCalling]
    /\ UNCHANGED <<instances, constructed, outside_registry>>

NextSingleton ==
    \/ \E t \in Threads, cls \in Types : GetInstance(t, cls)
    \/ \E t \in Threads : InstancesLockAcquire(t)
    \/ \E t \in Threads : Lookup(t)
    \/ \E t \in Threads : Construct(t)
    \/ \E t \in Threads : Store(t)
    \/ \E t \in Threads : Return(t)

SpecSingleton == InitThreads /\ [][NextSingleton]_vars

(***************************************************************************)
(* SpecReset: one config instance whose type declares two options,         *)
(* lucky_number (the option of Spec) and age, used through the option      *)
(* attributes, the raw entry points and reset().                           *)
(***************************************************************************)
\* age = IntOption('Age', default=2)
AgeOption ==
    [name |-> "Age", choices |-> None, env_name |-> None,
     default |-> Some(2), allow_cache |-> None]

\* BaseConfig.options(): the options of the type in declaration order.
options == <<option, AgeOption>>

\* Mutant of reset: the cache entries are marked absent and the backend is
\* left alone.
RECURSIVE reset_clears_cache_only(_, _, _, _, _)
reset_clears_cache_only(opts, i, cfgdict, cch, cls_allow_cache) ==
    IF i > Len(opts)
    THEN [config |-> cfgdict, cache |-> cch, dels |-> 0]
    ELSE reset_clears_cache_only(opts, i + 1, cfgdict,
                                 DictSet(cch, opts[i].name, None), cls_allow_cache)

\* BaseConfig.reset: "for o in self.options(): o.fdel(self)", from the i-th
\* option on. Each fdel also drops the one-shot value of its option.
RECURSIVE reset(_, _, _, _, _)
reset(opts, i, cfgdict, cch, cls_allow_cache) ==
    IF i > Len(opts)
    THEN [config |-> cfgdict, cache |-> cch, dels |-> 0]
    ELSE LET d == fdel(opts[i], NoShot, cfgdict, cch, cls_allow_cache)
             rest == reset(opts, i + 1, d.config, d.cache, cls_allow_cache)
         IN [config |-> rest.config, cache |-> rest.cache,
             dels |-> d.dels + rest.dels]

\* c.reset()
Reset(c) ==
    LET r == reset(options, 1, config[c], cache[c], ALLOW_CACHE) IN
    /\ one_shot' = NoShot
    /\ config' = [config EXCEPT ![c] = r.config]
    /\ cache' = [cache EXCEPT ![c] = r.cache]
    /\ last' = [Observed("reset", c, None, None, "", 0, 0, r.dels, <<>>, "")
                   EXCEPT !.before = [stored |-> DictGet(config[c], OPTION_NAME),
                                      is_set |-> one_shot.is_set]]
    /\ UNCHANGED <<registry, chain, others, option, ALLOW_CACHE, environ, lock, thread>>

\* c.age = python_value, del c.age when python_value is None
WriteAge(c, python_value) ==
    LET w == fset(AgeOption, NoShot, config[c], cache[c], ALLOW_CACHE, python_value) IN
    /\ config' = [config EXCEPT ![c] = w.config]
    /\ cache' = [cache EXCEPT ![c] = w.cache]
    /\ last' = Observed("write_age", c, python_value, None, "", 0, w.sets, w.dels,
                        <<>>, w.exc)
    /\ UNCHANGED <<registry, chain, others, option, ALLOW_CACHE, one_shot, environ, lock, thread>>

\* The type's lucky_number has no choices; "age" is declared next to it.
InitReset ==
    /\ option \in {d \in OptionDecls : IsNone(d.choices)}
    /\ ALLOW_CACHE \in BOOLEAN
    /\ InitConfigs
    /\ InitOthers
    /\ chain = NoChain

NextReset ==
    \/ Read(Main)
    \/ \E v \in PythonValues : Write(Main, v)
    \/ \E v \in {None, Some(1)} : WriteAge(Main, v)
    \/ SetOneShot(Main, Some(1))
    \/ \E r \in RawValues, a \in BOOLEAN : SetValue(Main, r, a)
    \/ \E a \in BOOLEAN : GetValue(Main, a)
    \/ \E a \in BOOLEAN : DelValue(Main, a)
    \/ Setenv("1")
    \/ Unsetenv
    \/ Reset(Main)

SpecReset == InitReset /\ [][NextReset]_vars

(***************************************************************************)
(* SpecChain: a ChainConfig over two MemoryConfig singletons, AConfig then *)
(* BConfig, each declaring the attribute "age" with its own IntOption      *)
(* object, and the chain's temporary config, which is built from the       *)
(* option object of the first config that declares the attribute.          *)
(***************************************************************************)
Temporary == "tmp"

\* OrderedDict([('a', a), ('b', b)])
ChainOrder == <<"a", "b">>

ChainMembers == {ChainOrder[i] : i \in DOMAIN ChainOrder}

\* The native values written to "age".
Ages == {1, 2}

\* options[attribute_name] = option of the first config declaring it: the
\* Option object the temporary config reads and writes through.
first_declaring(order) == order[1]

\* The Option object config c accesses "age" through.
option_owner(order, c) == IF c = Temporary THEN first_declaring(order) ELSE c

\* The declarations of "age" on AConfig and on BConfig.
ChainOptionDecls(default) ==
    {[name |-> OPTION_NAME, choices |-> None, env_name |-> e,
      default |-> d, allow_cache |-> None] :
        e \in {None, Some(ENV_NAME)}, d \in {None, Some(default)}}

\* ChainConfig.__init__ over freshly constructed members.
Chains ==
    {[order |-> ChainOrder,
      option |-> [c \in ChainMembers |-> IF c = "a" THEN oa ELSE ob],
      one_shot |-> [c \in ChainMembers |-> NoShot],
      config |-> [c \in ChainMembers \cup {Temporary} |->
                     (CONFIG_VERSION_OPTION_NAME :> CONFIG_VERSION)],
      cache |-> [c \in ChainMembers \cup {Temporary} |->
                    (CONFIG_VERSION_OPTION_NAME :> Some(CONFIG_VERSION))]] :
        oa \in ChainOptionDecls(1), ob \in ChainOptionDecls(2)}

\* option.read_value(c) for config c of the chain; MemoryConfig.ALLOW_CACHE
\* is False.
chain_read_value(ch, env, c) ==
    read_value(ch.option[option_owner(ch.order, c)],
               ch.one_shot[option_owner(ch.order, c)],
               env, ch.config[c], ch.cache[c], FALSE)

\* Mutant of temporary_wins: whatever the temporary config reads is returned.
temporary_always_wins(value, source) == TRUE

\* if source != ValueSource.default and value is not None: return value
temporary_wins(value, source) == source # "default" /\ ~IsNone(value)

\* Mutant of member_wins: any value a member reads is returned.
member_wins_with_any_value(value, source) == ~IsNone(value)

\* if source != ValueSource.default: return value
member_wins(value, source) == source # "default"

\* Mutant of remember_default: each member's default replaces the last.
remember_last_default(default, value) == value

\* elif default is None: default = value
remember_default(default, value) == IF IsNone(default) THEN value ELSE default

\* ChainConfig.__getattr__, lines 60-71: the loop over the declaring
\* configs from position i on. cch is the caches so far, consulted the
\* configs read so far.
RECURSIVE chain_loop(_, _, _, _, _, _)
chain_loop(ch, env, i, default, cch, consulted) ==
    IF i > Len(ch.order)
    THEN [value |-> default, source |-> "default", cache |-> cch,
          consulted |-> consulted, exc |-> ""]
    ELSE LET c == ch.order[i]
             r == chain_read_value(ch, env, c)
         IN IF r.exc # ""
            THEN [value |-> None, source |-> "", cache |-> [cch EXCEPT ![c] = r.cache],
                  consulted |-> Append(consulted, c), exc |-> r.exc]
            ELSE IF member_wins(r.value, r.source)
            THEN [value |-> r.value, source |-> r.source,
                  cache |-> [cch EXCEPT ![c] = r.cache],
                  consulted |-> Append(consulted, c), exc |-> ""]
            ELSE chain_loop(ch, env, i + 1, remember_default(default, r.value),
                            [cch EXCEPT ![c] = r.cache], Append(consulted, c))

\* ChainConfig.__getattr__
chain_getattr(ch, env) ==
    LET t == chain_read_value(ch, env, Temporary) IN
    IF t.exc # ""
    THEN [value |-> None, source |-> "", cache |-> [ch.cache EXCEPT ![Temporary] = t.cache],
          consulted |-> <<Temporary>>, exc |-> t.exc]
    ELSE IF temporary_wins(t.value, t.source)
    THEN [value |-> t.value, source |-> t.source,
          cache |-> [ch.cache EXCEPT ![Temporary] = t.cache],
          consulted |-> <<Temporary>>, exc |-> ""]
    ELSE chain_loop(ch, env, 1, None, [ch.cache EXCEPT ![Temporary] = t.cache],
                    <<Temporary>>)

\* Everything a chain operation leaves alone.
outside_chain ==
    <<option, ALLOW_CACHE, one_shot, environ, config, cache, lock, thread, registry, others>>

\* c.age
ChainRead ==
    LET r == chain_getattr(chain, environ) IN
    /\ chain' = [chain EXCEPT !.cache = r.cache]
    /\ last' = Observed("chain_read", "chain", r.consulted, r.value, r.source,
                        0, 0, 0, <<>>, r.exc)
    /\ UNCHANGED outside_chain

\* a.age = v, b.age = v, c.temporary.age = v; del ... when v is None
ChainWrite(c, python_value) ==
    LET owner == option_owner(chain.order, c)
        w == fset(chain.option[owner], chain.one_shot[owner], chain.config[c],
                  chain.cache[c], FALSE, python_value)
    IN
    /\ chain' = [chain EXCEPT !.one_shot[owner] = w.one_shot,
                              !.config[c] = w.config,
                              !.cache[c] = w.cache]
    /\ last' = Observed("chain_write", c, python_value, None, "", 0, w.sets, w.dels,
                        <<>>, w.exc)
    /\ UNCHANGED outside_chain

\* AConfig.age.set_one_shot_value(v), staged through member c
ChainSetOneShot(c, python_value) ==
    LET w == set_one_shot_value(chain.option[c], chain.one_shot[c], python_value) IN
    /\ chain' = [chain EXCEPT !.one_shot[c] = w.one_shot]
    /\ last' = Observed("chain_one_shot", c, python_value, None, "", 0, 0, 0, <<>>, w.exc)
    /\ UNCHANGED outside_chain

InitChain ==
    /\ option = PlainDecl
    /\ ALLOW_CACHE = FALSE
    /\ InitConfigs
    /\ InitOthers
    /\ chain \in Chains

NextChain ==
    \/ ChainRead
    \/ \E c \in ChainMembers \cup {Temporary}, v \in {None} \cup {Some(n) : n \in Ages} :
          ChainWrite(c, v)
    \/ ChainSetOneShot("a", Some(1))
    \/ \E j \in {"1", "null"} : Setenv(j)
    \/ Unsetenv

SpecChain == InitChain /\ [][NextChain]_vars

(***************************************************************************)
(* SpecByName: one config instance used through the by-name accessors,     *)
(* snapshot() and restore_snapshot(). The registry of its type is          *)
(* config_version, which BaseConfig declares, followed by lucky_number.    *)
(***************************************************************************)
\* A name no option of the type is stored under.
UNKNOWN_NAME == "LastName"

\* The keys of _ordered_options_by_name, in order.
option_names == <<CONFIG_VERSION_OPTION_NAME, OPTION_NAME>>

\* BaseConfig.option_for_name: self._ordered_options_by_name.get(name, None)
option_for_name(names, name) ==
    IF \E i \in DOMAIN names : names[i] = name THEN Some(name) ELSE None

\* The versions config_version is set to.
Versions == {CONFIG_VERSION, "2.0"}

\* json.dumps of a str
json_dumps_str(text) == "\"" \o text \o "\""

\* StringOption.deserialize_json: null, a JSON string, or anything else
string_deserialize_json(json_value) ==
    IF json_value = "null" THEN Ok(None)
    ELSE IF \E v \in Versions : json_dumps_str(v) = json_value
         THEN Ok(Some(CHOOSE v \in Versions : json_dumps_str(v) = json_value))
         ELSE Raise("DeserializationError")

\* config_version.fget(self): the option has no env name and no one-shot
\* value is staged on it; a stored str deserializes to itself and is valid.
config_version_fget(cfgdict, cch, cls_allow_cache) ==
    LET got == get_value_lock_free(cfgdict, cch, CONFIG_VERSION_OPTION_NAME,
                                   cls_allow_cache)
    IN [value |-> IF IsNone(got.v) THEN Some(CONFIG_VERSION) ELSE got.v,
        cache |-> got.cache, gets |-> got.gets]

\* config_version.fset(self, python_value) for None or a str
config_version_fset(cfgdict, cch, cls_allow_cache, python_value) ==
    IF ~IsNone(python_value)
    THEN set_value_lock_free(cfgdict, cch, CONFIG_VERSION_OPTION_NAME,
                             python_value, cls_allow_cache)
    ELSE del_value_lock_free(cfgdict, cch, CONFIG_VERSION_OPTION_NAME,
                             cls_allow_cache)

\* The one-shot by-name setters, which warn about an unknown name and return.
OneShotSetters ==
    {"set_one_shot_value_for_option_name",
     "set_one_shot_raw_value_for_option_name",
     "set_one_shot_json_value_for_option_name"}

\* The by-name getters, setters and the deleter, which raise KeyError.
ByNameAccessors ==
    {"get_value_for_option_name", "get_raw_value_for_option_name",
     "get_json_value_for_option_name", "set_value_for_option_name",
     "set_raw_value_for_option_name", "set_json_value_for_option_name",
     "del_value_for_option_name"}

\* The else branch of "if attribute:" in a by-name accessor.
no_option_named(accessor) ==
    IF accessor \in OneShotSetters THEN "" ELSE "KeyError"

\* BaseConfig.set_one_shot_raw_value_for_option_name
set_one_shot_raw_value_for_option_name(opt, shot, raw_value) ==
    IF deserialize(raw_value).exc # ""
    THEN [one_shot |-> shot, exc |-> deserialize(raw_value).exc]
    ELSE set_one_shot_value(opt, shot, deserialize(raw_value).v)

\* BaseConfig.set_one_shot_json_value_for_option_name
set_one_shot_json_value_for_option_name(opt, shot, json_value) ==
    IF deserialize_json(json_value).exc # ""
    THEN [one_shot |-> shot, exc |-> deserialize_json(json_value).exc]
    ELSE set_one_shot_value(opt, shot, deserialize_json(json_value).v)

\* BaseConfig.snapshot: the name of each option and serialize_json of what
\* it reads, in registry order; values is what the options read.
snapshot(opt, shot, env, cfgdict, cch, cls_allow_cache) ==
    LET v == config_version_fget(cfgdict, cch, cls_allow_cache)
        r == fget(opt, shot, env, cfgdict, v.cache, cls_allow_cache)
    IN [items |-> << <<CONFIG_VERSION_OPTION_NAME, json_dumps_str(Val(v.value))>>,
                     <<opt.name, serialize_json(r.value)>> >>,
        values |-> [config_version |-> v.value, option |-> r.value],
        cache |-> r.cache, gets |-> v.gets + r.gets]

\* Mutant of restore_item: an item whose value is null is skipped instead of
\* deleting what is stored.
restore_item_keeps_stored(names, opt, shot, cfgdict, cch, cls_allow_cache, name, json_value) ==
    IF IsNone(option_for_name(names, name))
    THEN Untouched(shot, cfgdict, cch, no_option_named("set_json_value_for_option_name"))
    ELSE IF json_value = "null"
    THEN Untouched(shot, cfgdict, cch, "")
    ELSE IF name = CONFIG_VERSION_OPTION_NAME
    THEN IF string_deserialize_json(json_value).exc # ""
         THEN Untouched(shot, cfgdict, cch, string_deserialize_json(json_value).exc)
         ELSE LET w == config_version_fset(cfgdict, cch, cls_allow_cache,
                                           string_deserialize_json(json_value).v)
              IN [one_shot |-> shot, config |-> w.config, cache |-> w.cache,
                  sets |-> w.sets, dels |-> w.dels, exc |-> ""]
    ELSE set_json_value_for_option_name(opt, shot, cfgdict, cch, cls_allow_cache,
                                        json_value)

\* self.set_json_value_for_option_name(k, json.dumps(v)) for one item of
\* the snapshot
restore_item(names, opt, shot, cfgdict, cch, cls_allow_cache, name, json_value) ==
    IF IsNone(option_for_name(names, name))
    THEN Untouched(shot, cfgdict, cch, no_option_named("set_json_value_for_option_name"))
    ELSE IF name = CONFIG_VERSION_OPTION_NAME
    THEN IF string_deserialize_json(json_value).exc # ""
         THEN Untouched(shot, cfgdict, cch, string_deserialize_json(json_value).exc)
         ELSE LET w == config_version_fset(cfgdict, cch, cls_allow_cache,
                                           string_deserialize_json(json_value).v)
              IN [one_shot |-> shot, config |-> w.config, cache |-> w.cache,
                  sets |-> w.sets, dels |-> w.dels, exc |-> ""]
    ELSE set_json_value_for_option_name(opt, shot, cfgdict, cch, cls_allow_cache,
                                        json_value)

\* BaseConfig.restore_snapshot: "for k, v in json.loads(snapshot).items()",
\* from the i-th item on; an exception ends the loop.
RECURSIVE restore_snapshot(_, _, _, _, _, _, _, _)
restore_snapshot(names, items, i, opt, shot, cfgdict, cch, cls_allow_cache) ==
    IF i > Len(items)
    THEN Untouched(shot, cfgdict, cch, "")
    ELSE LET w == restore_item(names, opt, shot, cfgdict, cch, cls_allow_cache,
                               items[i][1], items[i][2])
         IN IF w.exc # "" THEN w
            ELSE LET r == restore_snapshot(names, items, i + 1, opt, w.one_shot,
                                           w.config, w.cache, cls_allow_cache)
                 IN [r EXCEPT !.sets = @ + w.sets, !.dels = @ + w.dels]

\* A by-name accessor is called with a name option_for_name does not find.
AccessUnknownName(c, accessor, name) ==
    /\ IsNone(option_for_name(option_names, name))
    /\ last' = Observed(accessor, c, Some(name), None, "", 0, 0, 0, <<>>,
                        no_option_named(accessor))
    /\ UNCHANGED <<registry, chain, others, option, ALLOW_CACHE, one_shot, environ,
                   config, cache, lock, thread>>

\* c.set_one_shot_raw_value_for_option_name(name, raw_value)
SetOneShotRaw(c, raw_value) ==
    LET w == set_one_shot_raw_value_for_option_name(option, one_shot, raw_value) IN
    /\ one_shot' = w.one_shot
    /\ last' = Observed("one_shot_raw", c, Some(raw_value), None, "", 0, 0, 0, <<>>, w.exc)
    /\ UNCHANGED <<registry, chain, others, option, ALLOW_CACHE, environ, config, cache,
                   lock, thread>>

\* c.set_one_shot_json_value_for_option_name(name, json_value)
SetOneShotJson(c, json_value) ==
    LET w == set_one_shot_json_value_for_option_name(option, one_shot, json_value) IN
    /\ one_shot' = w.one_shot
    /\ last' = Observed("one_shot_json", c, Some(json_value), None, "", 0, 0, 0, <<>>, w.exc)
    /\ UNCHANGED <<registry, chain, others, option, ALLOW_CACHE, environ, config, cache,
                   lock, thread>>

\* c.config_version = python_value, del c.config_version when it is None
WriteVersion(c, python_value) ==
    LET w == config_version_fset(config[c], cache[c], ALLOW_CACHE, python_value) IN
    /\ config' = [config EXCEPT ![c] = w.config]
    /\ cache' = [cache EXCEPT ![c] = w.cache]
    /\ last' = Observed("write_version", c, python_value, None, "", 0, w.sets, w.dels,
                        <<>>, "")
    /\ UNCHANGED <<registry, chain, others, option, ALLOW_CACHE, one_shot, environ,
                   lock, thread>>

\* BaseConfig.python_items, raw_items, json_items: read_value of each
\* option in registry order
python_items(opt, shot, env, cfgdict, cch, cls_allow_cache) ==
    LET v == config_version_fget(cfgdict, cch, cls_allow_cache)
        r == read_value(opt, shot, env, cfgdict, v.cache, cls_allow_cache)
    IN [value |-> r.value, source |-> r.source, cache |-> r.cache,
        gets |-> v.gets + r.gets, resolver |-> r.resolver, exc |-> r.exc]

\* list(c.python_items())
PythonItems(c) ==
    LET r == python_items(option, one_shot, environ, config[c], cache[c], ALLOW_CACHE) IN
    /\ cache' = [cache EXCEPT ![c] = r.cache]
    /\ last' = Observed("python_items", c, None, r.value, r.source, r.gets, 0, 0,
                        r.resolver, r.exc)
    /\ UNCHANGED <<registry, chain, others, option, ALLOW_CACHE, one_shot, environ,
                   config, lock, thread>>

\* s = c.snapshot()
TakeSnapshot(c) ==
    LET s == snapshot(option, one_shot, environ, config[c], cache[c], ALLOW_CACHE) IN
    /\ taken' = [items |-> s.items, values |-> s.values]
    /\ cache' = [cache EXCEPT ![c] = s.cache]
    /\ last' = Observed("snapshot", c, None, None, "", s.gets, 0, 0, <<>>, "")
    /\ UNCHANGED <<registry, chain, classes, json_file, json_config, sample, option,
                   ALLOW_CACHE, one_shot, environ, config, lock, thread>>

\* c.restore_snapshot(text), items being the object the text holds
RestoreSnapshot(c, items) ==
    Written("restore_snapshot", c, items,
            restore_snapshot(option_names, items, 1, option, one_shot, config[c],
                             cache[c], ALLOW_CACHE))

\* c.restore_snapshot(s) for the snapshot s taken last
RestoreTaken(c) ==
    /\ taken # NoSnapshot
    /\ RestoreSnapshot(c, taken.items)

\* Snapshot texts written by hand: an unknown key alone, after and before a
\* known one, and an object of known keys only.
HandMadeSnapshots ==
    {<< <<UNKNOWN_NAME, "1">> >>,
     << <<OPTION_NAME, "1">>, <<UNKNOWN_NAME, "1">> >>,
     << <<UNKNOWN_NAME, "1">>, <<OPTION_NAME, "1">> >>,
     << <<CONFIG_VERSION_OPTION_NAME, json_dumps_str("2.0")>>, <<OPTION_NAME, "null">> >>}

\* The type declares lucky_number with or without a default, and leaves
\* caching to ALLOW_CACHE.
InitByName ==
    /\ option \in {d \in OptionDecls :
                      IsNone(d.env_name) /\ IsNone(d.choices) /\ IsNone(d.allow_cache)}
    /\ ALLOW_CACHE \in BOOLEAN
    /\ InitConfigs
    /\ InitOthers
    /\ chain = NoChain

NextByName ==
    \/ Read(Main)
    \/ \E v \in PythonValues : Write(Main, v)
    \/ WriteRaw(Main, "NotANumber")
    \/ Delete(Main)
    \/ \E v \in {None, Some(1)} : SetOneShot(Main, v)
    \/ \E r \in {"1", "NotANumber"} : SetOneShotRaw(Main, r)
    \/ \E j \in {"1", "null", "["} : SetOneShotJson(Main, j)
    \/ \E a \in ByNameAccessors \cup OneShotSetters :
          AccessUnknownName(Main, a, UNKNOWN_NAME)
    \/ \E v \in {None, Some("2.0")} : WriteVersion(Main, v)
    \/ SetValue(Main, "NotANumber", FALSE)
    \/ \E a \in BOOLEAN : GetValue(Main, a)
    \/ PythonItems(Main)
    \/ TakeSnapshot(Main)
    \/ RestoreTaken(Main)
    \/ \E items \in HandMadeSnapshots : RestoreSnapshot(Main, items)

SpecByName == InitByName /\ [][NextByName]_vars

(***************************************************************************)
(* SpecClasses: config classes defined through the metaclass               *)
(* _OrderedClass and instantiated. MyConfig(MemoryConfig) is defined with  *)
(* some class body, then SubMyConfig(MyConfig) with another; each class    *)
(* may then be instantiated. An option declaration is the attribute it is  *)
(* bound to, its storage name, the Option class it is an instance of, and  *)
(* the class whose body created it (which tells two Option objects with    *)
(* equal arguments apart).                                                 *)
(***************************************************************************)
Attributes == {"age", "name"}
StorageNames == {"Age", "Name"}

\* class MyIntOption(IntOption): a subtype of IntOption; StringOption is
\* unrelated to both.
OptionClasses == {"IntOption", "MyIntOption", "StringOption"}

\* isinstance(option, cls) for an option whose class is option_class
isinstance(option_class, cls) ==
    \/ option_class = cls
    \/ option_class = "MyIntOption" /\ cls = "IntOption"

\* The option declarations a class body of class owner may hold.
Declarations(owner) ==
    [attribute : Attributes, name : StorageNames, class : OptionClasses, owner : {owner}]

\* The class bodies: namespaces in definition order, one declaration per
\* attribute at most, since a body is a dict keyed by attribute name.
ClassBodies(owner) ==
    {<<>>}
    \cup {<<d>> : d \in Declarations(owner)}
    \cup {b \in Declarations(owner) \X Declarations(owner) :
              b[1].attribute # b[2].attribute}

\* config_version = StringOption(CONFIG_VERSION_OPTION_NAME, ...) in the body
\* of BaseConfig
config_version ==
    [attribute |-> "config_version", name |-> CONFIG_VERSION_OPTION_NAME,
     class |-> "StringOption", owner |-> "BaseConfig"]

\* instance_cls._ordered_options_by_name = OrderedDict() and
\* instance_cls._ordered_options_by_attribute = OrderedDict()
NoOptions == [by_name |-> <<>>, by_attribute |-> <<>>, exc |-> ""]

\* Mutant of add_option: an overridden option keeps the position of the
\* option it replaces.
add_option_in_place(reg, opt) ==
    LET replace(entries, same(_)) ==
            IF \E i \in DOMAIN entries : same(entries[i])
            THEN [i \in DOMAIN entries |-> IF same(entries[i]) THEN opt ELSE entries[i]]
            ELSE Append(entries, opt)
    IN
    IF reg.exc # "" THEN reg
    ELSE IF \E i \in DOMAIN reg.by_name :
               /\ reg.by_name[i].name = opt.name
               /\ ~isinstance(opt.class, reg.by_name[i].class)
    THEN [reg EXCEPT !.exc = "ValueError"]
    ELSE IF \E i \in DOMAIN reg.by_attribute :
               /\ reg.by_attribute[i].attribute = opt.attribute
               /\ reg.by_attribute[i].name # opt.name
    THEN [reg EXCEPT !.exc = "ValueError"]
    ELSE [by_name |-> replace(reg.by_name, LAMBDA e : e.name = opt.name),
          by_attribute |-> replace(reg.by_attribute,
                                   LAMBDA e : e.attribute = opt.attribute),
          exc |-> ""]

\* _OrderedClass.__new__.add_option(attribute_name, option): pop the entry
\* of the same storage name and the entry of the same attribute, raise
\* ValueError when the first is of a class the new option is not an
\* instance of or the second has another storage name, then insert the
\* option at the end of both ordered dicts.
add_option(reg, opt) ==
    IF reg.exc # "" THEN reg
    ELSE IF \E i \in DOMAIN reg.by_name :
               /\ reg.by_name[i].name = opt.name
               /\ ~isinstance(opt.class, reg.by_name[i].class)
    THEN [reg EXCEPT !.exc = "ValueError"]
    ELSE IF \E i \in DOMAIN reg.by_attribute :
               /\ reg.by_attribute[i].attribute = opt.attribute
               /\ reg.by_attribute[i].name # opt.name
    THEN [reg EXCEPT !.exc = "ValueError"]
    ELSE [by_name |->
              Append(SelectSeq(reg.by_name, LAMBDA e : e.name # opt.name), opt),
          by_attribute |->
              Append(SelectSeq(reg.by_attribute,
                               LAMBDA e : e.attribute # opt.attribute), opt),
          exc |-> ""]

\* "for attribute_name, option in itertools.chain.from_iterable(
\* inherited_options): add_option(attribute_name, option)", from the i-th
\* pair on.
RECURSIVE add_options(_, _, _)
add_options(reg, inherited_options, i) ==
    IF i > Len(inherited_options) THEN reg
    ELSE add_options(add_option(reg, inherited_options[i]), inherited_options, i + 1)

\* _OrderedClass.__new__: the registries of the bases, from the origin class
\* to the nearest one, then the options of the class body.
new_class(bases, classdict) ==
    add_options(NoOptions, bases \o classdict, 1)

\* A class that has not been defined.
NotDefined ==
    [defined |-> FALSE, classdict |-> <<>>, by_name |-> <<>>, by_attribute |-> <<>>,
     exc |-> "", instance |-> ""]

\* The class statement: the class exists unless the metaclass raised.
class_statement(bases, classdict) ==
    LET reg == new_class(bases, classdict) IN
    [defined |-> reg.exc = "", classdict |-> classdict,
     by_name |-> IF reg.exc = "" THEN reg.by_name ELSE <<>>,
     by_attribute |-> IF reg.exc = "" THEN reg.by_attribute ELSE <<>>,
     exc |-> reg.exc, instance |-> ""]

\* _ordered_options_by_attribute of BaseConfig and of MemoryConfig
BaseConfigOptions == new_class(<<>>, <<config_version>>).by_attribute
MemoryConfigOptions == new_class(BaseConfigOptions, <<>>).by_attribute

\* Mutant of BaseConfig_validate: duplicated names are accepted.
BaseConfig_validate_accepts_duplicates(by_attribute) == ""

\* BaseConfig.validate: AttributeError when two entries of
\* _ordered_options_by_attribute have the same storage name
BaseConfig_validate(by_attribute) ==
    IF \E i, j \in DOMAIN by_attribute :
           i < j /\ by_attribute[i].name = by_attribute[j].name
    THEN "AttributeError"
    ELSE ""

\* Everything a class statement or a constructor call leaves alone.
outside_classes ==
    <<option, ALLOW_CACHE, one_shot, environ, config, cache, lock, thread, last,
      registry, chain, taken, json_file, json_config, sample>>

\* class MyConfig(MemoryConfig): <classdict>
DefineMyConfig(classdict) ==
    /\ classes.MyConfig = NotDefined
    /\ classes' = [classes EXCEPT !.MyConfig =
                      class_statement(BaseConfigOptions \o MemoryConfigOptions, classdict)]
    /\ UNCHANGED outside_classes

\* class SubMyConfig(MyConfig): <classdict>
DefineSubMyConfig(classdict) ==
    /\ classes.MyConfig.defined
    /\ classes.SubMyConfig = NotDefined
    /\ classes' = [classes EXCEPT !.SubMyConfig =
                      class_statement(BaseConfigOptions \o MemoryConfigOptions
                                          \o classes.MyConfig.by_attribute,
                                      classdict)]
    /\ UNCHANGED outside_classes

\* cls(): BaseConfig.__init__ calls self.validate() first; the instance
\* exists unless it raises.
Instantiate(cls) ==
    /\ classes[cls].defined
    /\ classes[cls].instance = ""
    /\ classes' = [classes EXCEPT ![cls].instance =
                      IF BaseConfig_validate(classes[cls].by_attribute) = ""
                      THEN "instance"
                      ELSE BaseConfig_validate(classes[cls].by_attribute)]
    /\ UNCHANGED outside_classes

ClassNames == {"MyConfig", "SubMyConfig"}

InitClasses ==
    /\ option = PlainDecl
    /\ ALLOW_CACHE = FALSE
    /\ InitConfigs
    /\ chain = NoChain
    /\ taken = NoSnapshot
    /\ classes = [cls \in ClassNames |-> NotDefined]
    /\ json_file = NoJsonFile
    /\ json_config = NoJsonConfig
    /\ sample = NoSample

NextClasses ==
    \/ \E classdict \in ClassBodies("MyConfig") : DefineMyConfig(classdict)
    \/ \E classdict \in ClassBodies("SubMyConfig") : DefineSubMyConfig(classdict)
    \/ \E cls \in ClassNames : Instantiate(cls)

SpecClasses == InitClasses /\ [][NextClasses]_vars

(***************************************************************************)
(* SpecJSON: a JSONConfig over the file at JSON_PATH, which other          *)
(* processes may rewrite, corrupt, remove or make read-only. The type      *)
(* declares lucky_number; no environment variable and no one-shot value    *)
(* is involved.                                                            *)
(***************************************************************************)
\* What the file holds: a JSON object, text that is not JSON, a JSON array,
\* or nothing because there is no file.
FileShapes == {"object", "malformed", "array", "missing"}

\* json.dumps({}) in a file that can be written
EmptyFile == [shape |-> "object", object |-> EmptyDict, writable |-> TRUE]

\* The object json.load returns in _get_json_value and _set_json_value, as
\* far as "key in conf" and "conf[key]" go: nothing is found in a file that
\* cannot be opened or parsed, or that holds an array.
conf(file) == IF file.shape = "object" THEN file.object ELSE EmptyDict

\* JSONConfig._set_json_value: open(JSON_PATH, 'r+'), json.load, change the
\* key, dump. written is the object with the key changed. Whatever is
\* raised on the way is logged and swallowed, and the file stays as it is.
set_json_value(file, written) ==
    IF file.shape = "object" /\ file.writable
    THEN [file |-> [file EXCEPT !.object = written], dropped |-> FALSE, exc |-> ""]
    ELSE [file |-> file, dropped |-> TRUE, exc |-> ""]

\* JSONConfig.make_cache: json.load of the file, not guarded
make_cache(file) ==
    IF file.shape = "object"
    THEN Ok([k \in DOMAIN file.object |-> Some(file.object[k])])
    ELSE IF file.shape = "array" THEN Ok(<<>>)
    ELSE IF file.shape = "malformed" THEN Raise("ValueError")
    ELSE Raise("FileNotFoundError")

\* No JSONConfig instance, so far or after a constructor that raised.
NoInstance(exc) ==
    [exists |-> FALSE, exc |-> exc, cache |-> EmptyDict, dropped |-> None]

\* JSONConfig.__init__: create the file when there is none, then
\* BaseConfig.__init__: validate(), self._cache = self.make_cache(),
\* self.migrate(self.config_version). by_attribute is the registry of the
\* type. Reading config_version stores into the cache, which raises
\* TypeError on the list an array file was loaded as; migrate then writes
\* the version marker.
JSONConfig_init(by_attribute, file, cls_allow_cache) ==
    LET created == IF file.shape = "missing" THEN EmptyFile ELSE file
        loaded == make_cache(created)
        version == config_version_fget(conf(created), loaded.v, cls_allow_cache)
        marked == set_value_lock_free(conf(created), version.cache,
                                      CONFIG_VERSION_OPTION_NAME,
                                      Some(CONFIG_VERSION), FALSE)
    IN
    IF BaseConfig_validate(by_attribute) # ""
    THEN [file |-> created, instance |-> NoInstance(BaseConfig_validate(by_attribute))]
    ELSE IF loaded.exc # ""
    THEN [file |-> created, instance |-> NoInstance(loaded.exc)]
    ELSE IF created.shape = "array"
    THEN [file |-> created, instance |-> NoInstance("TypeError")]
    ELSE [file |-> set_json_value(created, marked.config).file,
          instance |-> [exists |-> TRUE, exc |-> "", cache |-> marked.cache,
                        dropped |-> None]]

\* The bodies of class MyConfig(JSONConfig): lucky_number alone, and two
\* attributes bound to options of one storage name.
JsonClassBodies ==
    { <<[attribute |-> "age", name |-> "Age", class |-> "IntOption", owner |-> "MyConfig"]>>,
      <<[attribute |-> "age", name |-> "Age", class |-> "IntOption", owner |-> "MyConfig"],
        [attribute |-> "name", name |-> "Age", class |-> "IntOption", owner |-> "MyConfig"]>> }

\* Everything an operation on the JSONConfig or on its file leaves alone.
outside_json ==
    <<option, ALLOW_CACHE, one_shot, environ, config, cache, lock, thread,
      registry, chain, taken, classes, sample>>

\* MyConfig.get_instance() for the first time
JSONConfigInit ==
    LET r == JSONConfig_init(classes.MyConfig.by_attribute, json_file, ALLOW_CACHE) IN
    /\ ~json_config.exists
    /\ json_config.exc = ""
    /\ json_file' = r.file
    /\ json_config' = r.instance
    /\ last' = Observed("json_init", json_file.shape, None, None, "", 0, 0, 0, <<>>,
                        r.instance.exc)
    /\ UNCHANGED outside_json

\* c.lucky_number
JsonRead ==
    LET r == fget(option, NoShot, EmptyDict, conf(json_file), json_config.cache,
                  ALLOW_CACHE)
    IN
    /\ json_config.exists
    /\ json_config' = [json_config EXCEPT !.cache = r.cache]
    /\ last' = Observed("json_read", "", None, r.value, r.source, r.gets, 0, 0,
                        r.resolver, r.exc)
    /\ UNCHANGED <<json_file, outside_json>>

\* c.lucky_number = python_value, del c.lucky_number when it is None: fset
\* reaches set_value_cache_free or del_value_cache_free, both of which are
\* _set_json_value, and set_value_lock_free stores into the cache after it.
JsonWrite(python_value) ==
    LET w == fset(option, NoShot, conf(json_file), json_config.cache, ALLOW_CACHE,
                  python_value)
        f == IF w.sets + w.dels > 0
             THEN set_json_value(json_file, w.config)
             ELSE [file |-> json_file, dropped |-> FALSE, exc |-> ""]
    IN
    /\ json_config.exists
    /\ json_file' = f.file
    /\ json_config' =
          IF f.exc # "" THEN json_config
          ELSE [json_config EXCEPT
                   !.cache = w.cache,
                   !.dropped = IF f.dropped THEN Some(python_value) ELSE None]
    /\ last' = Observed("json_write", "", python_value, None, "", 0, w.sets, w.dels,
                        <<>>, IF w.exc # "" THEN w.exc ELSE f.exc)
    /\ UNCHANGED outside_json

\* Another process replaces the content of the file, or removes it.
ForeignWrite(shape, object) ==
    /\ json_file' = [shape |-> shape, object |-> object, writable |-> json_file.writable]
    /\ json_config' = [json_config EXCEPT !.dropped = None]
    /\ last' = Observed("foreign_write", shape, None, None, "", 0, 0, 0, <<>>, "")
    /\ UNCHANGED outside_json

\* The file is made read-only or writable again.
Chmod(writable) ==
    /\ json_file.shape # "missing"
    /\ json_file' = [json_file EXCEPT !.writable = writable]
    /\ json_config' = [json_config EXCEPT !.dropped = None]
    /\ last' = Observed("chmod", "", None, None, "", 0, 0, 0, <<>>, "")
    /\ UNCHANGED outside_json

\* The objects another process leaves in the file.
ForeignObjects ==
    {EmptyDict, (OPTION_NAME :> "2"), (OPTION_NAME :> "NotANumber")}

InitJSON ==
    /\ option \in {d \in OptionDecls :
                      IsNone(d.env_name) /\ IsNone(d.choices) /\ IsNone(d.allow_cache)}
    /\ ALLOW_CACHE \in BOOLEAN
    /\ InitConfigs
    /\ chain = NoChain
    /\ taken = NoSnapshot
    /\ classes \in {[cls \in ClassNames |->
                       IF cls = "MyConfig"
                       THEN class_statement(BaseConfigOptions \o MemoryConfigOptions, b)
                       ELSE NotDefined] : b \in JsonClassBodies}
    /\ json_file \in {[shape |-> s, object |-> o, writable |-> TRUE] :
                         s \in FileShapes, o \in {EmptyDict}}
                     \cup {[shape |-> "object", object |-> o, writable |-> TRUE] :
                              o \in ForeignObjects}
    /\ json_config = NoInstance("")
    /\ sample = NoSample

NextJSON ==
    \/ JSONConfigInit
    \/ JsonRead
    \/ \E v \in {None, Some(1)} : JsonWrite(v)
    \/ \E o \in ForeignObjects : ForeignWrite("object", o)
    \/ \E s \in FileShapes \ {"object"} : ForeignWrite(s, EmptyDict)
    \/ \E w \in BOOLEAN : Chmod(w)

SpecJSON == InitJSON /\ [][NextJSON]_vars

(***************************************************************************)
(* SpecOptions: the conversions and validate of the option kinds, applied  *)
(* to Python values of every type, and writes of an ArrayOption or a       *)
(* DictOption into a MemoryConfig. A Python value is its type, the text    *)
(* str() gives for it, and its members when it is a list or a dict (the    *)
(* keys of a dict are strings and play no part).                           *)
(***************************************************************************)
PyVal(type, text, items) == [type |-> type, text |-> text, items |-> items]
PyNone == PyVal("NoneType", "None", <<>>)
PyInt(text) == PyVal("int", text, <<>>)
PyBool(text) == PyVal("bool", text, <<>>)
PyFloat(text) == PyVal("float", text, <<>>)
PyStr(text) == PyVal("str", text, <<>>)
PyList(items) == PyVal("list", "", items)
PyDict(items) == PyVal("dict", "", items)

\* isinstance(v, cls); bool is a subclass of int
py_isinstance(v, cls) == v.type = cls \/ (cls = "int" /\ v.type = "bool")

\* str(v) of a scalar
py_str(v) == PyStr(v.text)

\* The texts float() parses, with the float they give
FloatTexts == {"1", "1.5", "1.0", "nan"}
float_of_text(text) == IF text = "1" THEN "1.0" ELSE text

\* float(v): ValueError for a text that is no number, TypeError for None and
\* containers
py_float(v) ==
    IF v.type = "float" THEN Ok(v)
    ELSE IF v.type = "int" THEN Ok(PyFloat(v.text \o ".0"))
    ELSE IF v.type = "bool" THEN Ok(PyFloat(IF v.text = "True" THEN "1.0" ELSE "0.0"))
    ELSE IF v.type = "str"
    THEN IF v.text \in FloatTexts THEN Ok(PyFloat(float_of_text(v.text)))
         ELSE [exc |-> "ValueError", v |-> PyNone]
    ELSE [exc |-> "TypeError", v |-> PyNone]

\* The texts int() parses
IntTexts == {"0", "1"}

\* int(v)
py_int(v) ==
    IF v.type = "int" THEN Ok(v)
    ELSE IF v.type = "bool" THEN Ok(PyInt(IF v.text = "True" THEN "1" ELSE "0"))
    ELSE IF v.type = "str"
    THEN IF v.text \in IntTexts THEN Ok(PyInt(v.text))
         ELSE [exc |-> "ValueError", v |-> PyNone]
    ELSE [exc |-> "TypeError", v |-> PyNone]

\* a == b in Python: numbers compare by value whatever their type, nan is
\* equal to nothing, anything else compares with its own type only
py_eq(a, b) ==
    LET Numbers == {"int", "bool", "float"} IN
    IF a.type \in Numbers /\ b.type \in Numbers
    THEN /\ py_float(a).v.text = py_float(b).v.text
         /\ py_float(a).v.text # "nan"
    ELSE a = b

\* The texts of the strings in use
StrTexts == {"1.5", "x"}

\* json.dumps(v) of a scalar
py_json_dumps(v) ==
    IF v.type = "NoneType" THEN "null"
    ELSE IF v.type = "bool" THEN (IF v.text = "True" THEN "true" ELSE "false")
    ELSE IF v.type = "float" /\ v.text = "nan" THEN "NaN"
    ELSE IF v.type = "str" THEN json_dumps_str(v.text)
    ELSE v.text

\* json.loads(text) of the text of a scalar; ValueError otherwise
py_json_loads(text) ==
    IF text = "null" THEN Ok(PyNone)
    ELSE IF text = "true" THEN Ok(PyBool("True"))
    ELSE IF text = "false" THEN Ok(PyBool("False"))
    ELSE IF text = "NaN" THEN Ok(PyFloat("nan"))
    ELSE IF text \in IntTexts THEN Ok(PyInt(text))
    ELSE IF text \in {"1.5", "1.0", "0.0"} THEN Ok(PyFloat(text))
    ELSE IF \E t \in StrTexts : text = json_dumps_str(t)
    THEN Ok(PyStr(CHOOSE t \in StrTexts : text = json_dumps_str(t)))
    ELSE [exc |-> "ValueError", v |-> PyNone]

OptionKinds == {"IntOption", "FloatOption", "BooleanOption", "StringOption"}

\* BaseOption.validate with the choices of the kind: (True, False) for a
\* BooleanOption, none for the others. "not in" compares with ==.
super_validate(kind, v) ==
    IF v = PyNone THEN ""
    ELSE IF kind = "BooleanOption"
            /\ ~\E c \in {PyBool("True"), PyBool("False")} : py_eq(v, c)
    THEN "ValidationError"
    ELSE ""

\* IntOption.validate, FloatOption.validate, BooleanOption.validate and
\* StringOption.validate, each after super().validate: "" when the value
\* passes, the exception otherwise. FloatOption catches ValueError only.
option_validate(kind, v) ==
    IF super_validate(kind, v) # "" THEN super_validate(kind, v)
    ELSE IF kind = "IntOption"
    THEN IF py_isinstance(v, "int") THEN "" ELSE "ValidationError"
    ELSE IF kind = "FloatOption"
    THEN IF py_float(v).exc = "ValueError" THEN "ValidationError" ELSE py_float(v).exc
    ELSE IF kind = "BooleanOption"
    THEN IF py_isinstance(v, "bool") THEN "" ELSE "ValidationError"
    ELSE IF py_isinstance(v, "str") THEN "" ELSE "ValidationError"

\* serialize: BooleanOption's '1' if python_value else '0', BaseOption's
\* str(python_value) for the others
option_serialize(kind, v) ==
    IF kind = "BooleanOption"
    THEN PyStr(IF v.text \in {"False", "0", "0.0", "", "None"} THEN "0" ELSE "1")
    ELSE py_str(v)

\* A conversion that failed
Failed(exc) == [exc |-> exc, v |-> PyNone]

\* deserialize of each kind, given the str a serialize returned
option_deserialize(kind, raw_value) ==
    IF kind = "IntOption"
    THEN IF py_int(raw_value).exc = "ValueError" THEN Failed("DeserializationError")
         ELSE py_int(raw_value)
    ELSE IF kind = "FloatOption"
    THEN IF py_float(raw_value).exc = "ValueError" THEN Failed("DeserializationError")
         ELSE py_float(raw_value)
    ELSE IF kind = "BooleanOption"
    THEN IF raw_value.text \in {"1", "YES", "TRUE", "ON"} THEN Ok(PyBool("True"))
         ELSE IF raw_value.text \in {"0", "NO", "FALSE", "OFF"} THEN Ok(PyBool("False"))
         ELSE Failed("DeserializationError")
    ELSE Ok(py_str(raw_value))

\* BaseOption.serialize_json, which no scalar kind overrides
option_serialize_json(kind, v) == py_json_dumps(v)

\* The type deserialize_json of each kind insists on
json_type == [k \in OptionKinds |->
                 IF k = "IntOption" THEN "int"
                 ELSE IF k = "FloatOption" THEN "float"
                 ELSE IF k = "BooleanOption" THEN "bool" ELSE "str"]

\* deserialize_json of each kind: json.loads, None for null, and
\* DeserializationError unless isinstance(value, <type of the kind>);
\* BooleanOption's super().deserialize_json lets ValueError through
option_deserialize_json(kind, json_value) ==
    LET value == py_json_loads(json_value) IN
    IF value.exc # ""
    THEN Failed(IF kind = "BooleanOption" THEN "ValueError" ELSE "DeserializationError")
    ELSE IF value.v = PyNone THEN Ok(PyNone)
    ELSE IF ~py_isinstance(value.v, json_type[kind]) THEN Failed("DeserializationError")
    ELSE IF kind = "IntOption" THEN py_int(value.v)
    ELSE Ok(value.v)

ContainerKinds == {"ArrayOption", "DictOption"}

\* value_option=None
NoValueOption == ""

\* ArrayOption.validate and DictOption.validate: super().validate(value),
\* the option having no choices, then isinstance(value, (list, tuple)) or
\* isinstance(value, dict). value_option is not consulted.
container_validate(kind, value_option, v) ==
    IF v = PyNone THEN "ValidationError"
    ELSE IF kind = "ArrayOption" /\ ~py_isinstance(v, "list") THEN "ValidationError"
    ELSE IF kind = "DictOption" /\ ~py_isinstance(v, "dict") THEN "ValidationError"
    ELSE ""

\* ArrayOption.serialize and DictOption.serialize: the inner option's
\* serialize of every member, the value itself without an inner option
container_serialize(kind, value_option, v) ==
    IF value_option = NoValueOption THEN v
    ELSE [v EXCEPT !.items = [i \in 1..Len(v.items) |->
                                 option_serialize(value_option, v.items[i])]]

\* BaseOption.fset of an ArrayOption or DictOption on a MemoryConfig, for a
\* value that is not None: validate, serialize, set_array_value or
\* set_dict_value. stored is what the config holds under the option's name.
container_fset(kind, value_option, stored, v) ==
    IF container_validate(kind, value_option, v) # ""
    THEN [stored |-> stored, exc |-> container_validate(kind, value_option, v)]
    ELSE [stored |-> container_serialize(kind, value_option, v), exc |-> ""]

\* Largest number of members of a list or dict that is written.
MaxMembers == 2

\* The scalars the kinds are tried on
Scalars ==
    {PyInt("1"), PyBool("True"), PyFloat("1.5"), PyFloat("nan"), PyStr("1.5"), PyStr("x")}

\* The members of the containers that are written
Members == {PyInt("1"), PyStr("x")}

MemberSeqs == UNION {[1..n -> Members] : n \in 0..MaxMembers}

\* The values written to an ArrayOption or DictOption
Writable == Scalars \cup {PyList(m) : m \in MemberSeqs} \cup {PyDict(m) : m \in MemberSeqs}

\* What the last operation on an option was given and gave.
Sampled(container, value_option, stored, op, kind, value, result, exc, before) ==
    [container |-> container, value_option |-> value_option, stored |-> stored,
     op |-> op, kind |-> kind, value |-> value, result |-> result, exc |-> exc,
     before |-> before]

outside_options ==
    <<option, ALLOW_CACHE, one_shot, environ, config, cache, lock, thread, last,
      registry, chain, taken, classes, json_file, json_config>>

\* option.validate(v) of a scalar kind
Validate(kind, v) ==
    /\ sample' = Sampled(sample.container, sample.value_option, sample.stored,
                         "validate", kind, v, PyNone, option_validate(kind, v),
                         sample.stored)
    /\ UNCHANGED outside_options

\* option.deserialize(option.serialize(v)) for a v that passes validate
RoundTrip(kind, v) ==
    LET r == option_deserialize(kind, option_serialize(kind, v)) IN
    /\ option_validate(kind, v) = ""
    /\ sample' = Sampled(sample.container, sample.value_option, sample.stored,
                         "round_trip", kind, v, r.v, r.exc, sample.stored)
    /\ UNCHANGED outside_options

\* option.deserialize_json(option.serialize_json(v)) for a v that passes
\* validate
RoundTripJson(kind, v) ==
    LET r == option_deserialize_json(kind, option_serialize_json(kind, v)) IN
    /\ option_validate(kind, v) = ""
    /\ sample' = Sampled(sample.container, sample.value_option, sample.stored,
                         "round_trip_json", kind, v, r.v, r.exc, sample.stored)
    /\ UNCHANGED outside_options

\* c.numbers = v for the ArrayOption or DictOption the type declares
WriteContainer(v) ==
    LET w == container_fset(sample.container, sample.value_option, sample.stored, v) IN
    /\ sample' = Sampled(sample.container, sample.value_option, w.stored,
                         "write", sample.container, v, PyNone, w.exc, sample.stored)
    /\ UNCHANGED outside_options

\* The type declares one ArrayOption or DictOption, with or without an
\* inner option, and nothing is stored.
InitOptions ==
    /\ option = PlainDecl
    /\ ALLOW_CACHE = FALSE
    /\ InitConfigs
    /\ chain = NoChain
    /\ taken = NoSnapshot
    /\ classes = NoClasses
    /\ json_file = NoJsonFile
    /\ json_config = NoJsonConfig
    /\ sample \in {Sampled(k, o, PyNone, "init", "", PyNone, PyNone, "", PyNone) :
                      k \in ContainerKinds, o \in OptionKinds \cup {NoValueOption}}

NextOptions ==
    \/ \E k \in OptionKinds, v \in Scalars \cup {PyNone} : Validate(k, v)
    \/ \E k \in OptionKinds, v \in Scalars : RoundTrip(k, v)
    \/ \E k \in OptionKinds, v \in Scalars : RoundTripJson(k, v)
    \/ \E v \in Writable : WriteContainer(v)

SpecOptions == InitOptions /\ [][NextOptions]_vars

(***************************************************************************)
(* SpecRename: rename_option on a MemoryConfig whose backend is written    *)
(* and deleted by name, as a migrate() override does.                      *)
(***************************************************************************)
\* The name an option had and the name it gets.
NEW_OPTION_NAME == "FortunateNumber"
RenamedNames == {OPTION_NAME, NEW_OPTION_NAME}

\* The callables passed as transform: none, lambda v: str(-int(v)), and
\* lambda v: None.
Transforms == {"", "negate", "discard"}

\* The raw values the backend holds under the two names.
RenamedValues == {"1", "-1"}

\* transform(value) if transform else value
apply_transform(transform, value) ==
    IF transform = "" THEN Some(value)
    ELSE IF transform = "negate" THEN Some(IF value = "1" THEN "-1" ELSE "1")
    ELSE None

\* Mutant of rename_option: the value is copied and the old name is kept.
rename_option_keeps_old(cfgdict, cch, old_name, new_name, transform) ==
    LET g == get_value_lock_free(cfgdict, cch, old_name, FALSE)
        w == IF ~IsNone(g.v)
             THEN set_value_lock_free(g.config, g.cache, new_name,
                                      apply_transform(transform, Val(g.v)), FALSE)
             ELSE [g EXCEPT !.gets = 0]
    IN [config |-> w.config, cache |-> w.cache, gets |-> g.gets, sets |-> w.sets,
        dels |-> 0]

\* BaseConfig.rename_option: value = self.get_value(old_name); if value is
\* not None: self.set_value(new_name, ...); self.del_value(old_name). The
\* three calls leave allow_cache at its default False.
rename_option(cfgdict, cch, old_name, new_name, transform) ==
    LET g == get_value_lock_free(cfgdict, cch, old_name, FALSE)
        w == IF ~IsNone(g.v)
             THEN set_value_lock_free(g.config, g.cache, new_name,
                                      apply_transform(transform, Val(g.v)), FALSE)
             ELSE [g EXCEPT !.gets = 0]
        d == del_value_lock_free(w.config, w.cache, old_name, FALSE)
    IN [config |-> d.config, cache |-> d.cache, gets |-> g.gets, sets |-> w.sets,
        dels |-> d.dels]

\* c.rename_option(old_name, new_name, transform)
RenameOption(c, old_name, new_name, transform) ==
    LET r == rename_option(config[c], cache[c], old_name, new_name, transform) IN
    /\ old_name # new_name
    /\ config' = [config EXCEPT ![c] = r.config]
    /\ cache' = [cache EXCEPT ![c] = r.cache]
    /\ last' = Observed("rename_option", c, <<old_name, new_name, transform>>, None, "",
                        r.gets, r.sets, r.dels, <<>>, "")
    /\ UNCHANGED <<registry, chain, others, option, ALLOW_CACHE, one_shot, environ,
                   lock, thread>>

\* c.set_value(name, raw_value, allow_cache=...)
SetNamed(c, name, raw_value, allow_cache) ==
    LET r == set_value_lock_free(config[c], cache[c], name, Some(raw_value),
                                 allow_cache) IN
    /\ config' = [config EXCEPT ![c] = r.config]
    /\ cache' = [cache EXCEPT ![c] = r.cache]
    /\ last' = Observed("set_value", c, <<name, raw_value>>, None, "", 0, r.sets,
                        r.dels, <<>>, "")
    /\ UNCHANGED <<registry, chain, others, option, ALLOW_CACHE, one_shot, environ,
                   lock, thread>>

\* c.del_value(name, allow_cache=...)
DelNamed(c, name, allow_cache) ==
    LET r == del_value_lock_free(config[c], cache[c], name, allow_cache) IN
    /\ config' = [config EXCEPT ![c] = r.config]
    /\ cache' = [cache EXCEPT ![c] = r.cache]
    /\ last' = Observed("del_value", c, <<name>>, None, "", 0, r.sets, r.dels,
                        <<>>, "")
    /\ UNCHANGED <<registry, chain, others, option, ALLOW_CACHE, one_shot, environ,
                   lock, thread>>

InitRename ==
    /\ option = PlainDecl
    /\ ALLOW_CACHE \in BOOLEAN
    /\ InitConfigs
    /\ InitOthers
    /\ chain = NoChain

NextRename ==
    \/ \E n \in RenamedNames, r \in RenamedValues, a \in BOOLEAN : SetNamed(Main, n, r, a)
    \/ \E n \in RenamedNames, a \in BOOLEAN : DelNamed(Main, n, a)
    \/ \E old_name, new_name \in RenamedNames, t \in Transforms :
          RenameOption(Main, old_name, new_name, t)

SpecRename == InitRename /\ [][NextRename]_vars

(***************************************************************************)
(* SpecRace: one thread writes or deletes the option through its attribute *)
(* while another reads it. BaseOption keeps the one-shot value in two      *)
(* attributes of the option object, which no lock guards; the config's     *)
(* getter, setter and deleter run under the config's lock.                 *)
(***************************************************************************)
\* Where the two threads are: the writer before fset, after
\* "self._one_shot_value = None", after "self._is_one_shot_value_set =
\* False", and after the setter or deleter returned; the reader before
\* read_value, after it evaluated self._is_one_shot_value_set, and after it
\* returned. before and after are what a read returns when the write begins
\* and when it has ended.
NotRacing ==
    [writer |-> "idle", written |-> None, before |-> None, after |-> None,
     staged |-> FALSE, reader |-> "idle", seen |-> FALSE, result |-> None]

outside_race ==
    <<option, ALLOW_CACHE, environ, lock, thread, registry, chain, taken, classes,
      json_file, json_config>>

\* fset / fdel, first statement: self._one_shot_value = None
ClearOneShotValue(c, python_value) ==
    /\ sample.writer = "idle"
    /\ sample' = [sample EXCEPT !.writer = "value_cleared", !.written = python_value,
                                !.before = ReadOf(c).value,
                                !.staged = one_shot.is_set]
    /\ one_shot' = [one_shot EXCEPT !.value = None]
    /\ last' = Observed("clear_value", c, python_value, None, "", 0, 0, 0, <<>>, "")
    /\ UNCHANGED <<config, cache, outside_race>>

\* fset / fdel, second statement: self._is_one_shot_value_set = False
ClearOneShotFlag(c) ==
    /\ sample.writer = "value_cleared"
    /\ sample' = [sample EXCEPT !.writer = "flag_cleared"]
    /\ one_shot' = [one_shot EXCEPT !.is_set = FALSE]
    /\ last' = Observed("clear_flag", c, None, None, "", 0, 0, 0, <<>>, "")
    /\ UNCHANGED <<config, cache, outside_race>>

\* fset / fdel, the rest: validate, serialize, and the config's setter or
\* deleter under the config's lock
StoreValue(c) ==
    LET w == fset(option, one_shot, config[c], cache[c], ALLOW_CACHE, sample.written)
        after == fget(option, w.one_shot, environ, w.config, w.cache, ALLOW_CACHE)
    IN
    /\ sample.writer = "flag_cleared"
    /\ sample' = [sample EXCEPT !.writer = "done", !.after = after.value]
    /\ one_shot' = w.one_shot
    /\ config' = [config EXCEPT ![c] = w.config]
    /\ cache' = [cache EXCEPT ![c] = w.cache]
    /\ last' = Observed("store", c, sample.written, None, "", 0, w.sets, w.dels, <<>>,
                        w.exc)
    /\ UNCHANGED outside_race

\* read_value up to "if python_value is None and
\* self._is_one_shot_value_set": no environment variable is declared
TestOneShotFlag(c) ==
    /\ sample.reader = "idle"
    /\ sample' = [sample EXCEPT !.reader = "flag_tested", !.seen = one_shot.is_set]
    /\ last' = Observed("test_flag", c, None, None, "", 0, 0, 0, <<>>, "")
    /\ UNCHANGED <<one_shot, config, cache, outside_race>>

\* read_value, the rest: self._one_shot_value when the flag was seen set,
\* the config's getter under the config's lock otherwise, and the default
\* for None
FinishRead(c) ==
    LET r == read_value(option, [is_set |-> sample.seen, value |-> one_shot.value],
                        environ, config[c], cache[c], ALLOW_CACHE)
    IN
    /\ sample.reader = "flag_tested"
    /\ sample' = [sample EXCEPT !.reader = "done", !.result = r.value]
    /\ cache' = [cache EXCEPT ![c] = r.cache]
    /\ last' = Observed("read", c, None, r.value, r.source, r.gets, 0, 0, r.resolver,
                        r.exc)
    /\ UNCHANGED <<one_shot, config, outside_race>>

\* Both threads are joined.
Join ==
    /\ sample.writer = "done"
    /\ sample.reader = "done"
    /\ sample' = NotRacing
    /\ last' = Observed("join", "", None, None, "", 0, 0, 0, <<>>, "")
    /\ UNCHANGED <<one_shot, config, cache, outside_race>>

\* option.set_one_shot_value(python_value) while no thread is in the option
StageOneShot(c, python_value) ==
    /\ sample = NotRacing
    /\ one_shot' = set_one_shot_value(option, one_shot, python_value).one_shot
    /\ last' = Observed("one_shot", c, python_value, None, "", 0, 0, 0, <<>>, "")
    /\ UNCHANGED <<sample, config, cache, outside_race>>

InitRace ==
    /\ option \in {d \in OptionDecls :
                      IsNone(d.env_name) /\ IsNone(d.choices) /\ IsNone(d.allow_cache)}
    /\ ALLOW_CACHE \in BOOLEAN
    /\ InitConfigs
    /\ chain = NoChain
    /\ taken = NoSnapshot
    /\ classes = NoClasses
    /\ json_file = NoJsonFile
    /\ json_config = NoJsonConfig
    /\ sample = NotRacing

NextRace ==
    \/ \E v \in PythonValues : ClearOneShotValue(Main, v)
    \/ ClearOneShotFlag(Main)
    \/ StoreValue(Main)
    \/ TestOneShotFlag(Main)
    \/ FinishRead(Main)
    \/ Join
    \/ \E v \in PythonValues : StageOneShot(Main, v)

SpecRace == InitRace /\ [][NextRace]_vars

(***************************************************************************)
(* SpecShared: two instances of the type over one backend (one file, one   *)
(* registry key), each with its own cache. config holds the same dict for  *)
(* both instances; an instance's write replaces it for both.               *)
(***************************************************************************)
\* The one backend, as every instance sees it.
Backend == config[Main]

Other == "c2"

Shared(cfgdict) == [c \in Configs |-> cfgdict]

\* c.lucky_number over the shared backend
SharedRead(c) ==
    LET r == fget(option, one_shot, environ, Backend, cache[c], ALLOW_CACHE) IN
    /\ cache' = [cache EXCEPT ![c] = r.cache]
    /\ last' = Observed("read", c, None, r.value, r.source, r.gets, 0, 0, r.resolver,
                        r.exc)
    /\ UNCHANGED <<registry, chain, others, option, ALLOW_CACHE, one_shot, environ, config, lock, thread>>

\* c.lucky_number = python_value over the shared backend
SharedWrite(c, python_value) ==
    LET w == fset(option, one_shot, Backend, cache[c], ALLOW_CACHE, python_value) IN
    /\ one_shot' = w.one_shot
    /\ config' = Shared(w.config)
    /\ cache' = [cache EXCEPT ![c] = w.cache]
    /\ last' = Observed("write", c, python_value, None, "", 0, w.sets, w.dels, <<>>,
                        w.exc)
    /\ UNCHANGED <<registry, chain, others, option, ALLOW_CACHE, environ, lock, thread>>

InitShared ==
    /\ option \in {d \in OptionDecls : IsNone(d.env_name) /\ IsNone(d.choices)}
    /\ ALLOW_CACHE \in BOOLEAN
    /\ InitConfigs
    /\ InitOthers
    /\ chain = NoChain

NextShared ==
    \/ \E c \in Configs : SharedRead(c)
    \/ \E c \in Configs, v \in PythonValues : SharedWrite(c, v)

SpecShared == InitShared /\ [][NextShared]_vars

(***************************************************************************)
(* SpecCorrupt: the chain of SpecChain with members whose backend holds a  *)
(* string that is not an integer, stored through the raw entry point.      *)
(***************************************************************************)
\* a.set_value('LuckyNumber', raw_value), b.set_value('LuckyNumber', raw_value)
ChainSetValue(c, raw_value) ==
    LET r == set_value_lock_free(chain.config[c], chain.cache[c], OPTION_NAME,
                                 Some(raw_value), FALSE) IN
    /\ chain' = [chain EXCEPT !.config[c] = r.config, !.cache[c] = r.cache]
    /\ last' = Observed("chain_set_value", c, Some(raw_value), None, "", 0, r.sets,
                        r.dels, <<>>, "")
    /\ UNCHANGED outside_chain

NextCorrupt ==
    \/ ChainRead
    \/ \E c \in ChainMembers, v \in {None} \cup {Some(n) : n \in Ages} : ChainWrite(c, v)
    \/ \E c \in ChainMembers : ChainSetValue(c, "NotANumber")

SpecCorrupt == InitChain /\ [][NextCorrupt]_vars

(***************************************************************************)
(* SpecMixins: config classes with several bases. A is defined over        *)
(* MemoryConfig, with or without the plain mixin M; B and C derive from A; *)
(* D derives from some of A, B, C and M. Every class body may declare the  *)
(* attributes "age" and "name" with Option objects of its own.             *)
(***************************************************************************)
\* The classes that exist before any class statement of the program:
\* object, BaseConfig, whose body declares config_version, and
\* MemoryConfig. The abstract base classes between BaseConfig and object
\* declare no option and are left out of the method resolution order.
BuiltIn ==
    [object |-> [defined |-> TRUE, ordered |-> FALSE, mro |-> <<"object">>,
                 classdict |-> <<>>, by_attribute |-> <<>>, exc |-> ""],
     BaseConfig |-> [defined |-> TRUE, ordered |-> TRUE,
                     mro |-> <<"BaseConfig", "object">>,
                     classdict |-> <<config_version>>,
                     by_attribute |-> BaseConfigOptions, exc |-> ""],
     MemoryConfig |-> [defined |-> TRUE, ordered |-> TRUE,
                       mro |-> <<"MemoryConfig", "BaseConfig", "object">>,
                       classdict |-> <<>>,
                       by_attribute |-> MemoryConfigOptions, exc |-> ""]]

MixinNames == {"M"}
ConfigNames == {"A", "B", "C", "D"}

NoClass ==
    [defined |-> FALSE, ordered |-> FALSE, mro |-> <<>>, classdict |-> <<>>,
     by_attribute |-> <<>>, exc |-> ""]

\* The class object a name is bound to.
klass(table, class_name) ==
    IF class_name \in DOMAIN BuiltIn THEN BuiltIn[class_name] ELSE table[class_name]

\* The merge step of the linearization type.__new__ computes for __mro__:
\* take the first head that is in the tail of no list, TypeError when
\* there is none.
RECURSIVE c3_merge(_)
c3_merge(lists) ==
    LET live == SelectSeq(lists, LAMBDA q : Len(q) > 0)
        good(i) == \A j \in DOMAIN live :
                      \A k \in 2..Len(live[j]) : live[j][k] # live[i][1]
    IN IF Len(live) = 0 THEN [mro |-> <<>>, exc |-> ""]
       ELSE IF ~\E i \in DOMAIN live : good(i)
       THEN [mro |-> <<>>, exc |-> "TypeError"]
       ELSE LET first == CHOOSE i \in DOMAIN live :
                             good(i) /\ \A j \in 1..(i - 1) : ~good(j)
                head == live[first][1]
                merged == c3_merge([j \in DOMAIN live |->
                                       SelectSeq(live[j], LAMBDA x : x # head)])
            IN [mro |-> <<head>> \o merged.mro, exc |-> merged.exc]

\* instance_cls.__mro__ of "class class_name(*bases)"
mro_of(table, class_name, bases) ==
    LET merged == c3_merge([i \in DOMAIN bases |-> klass(table, bases[i]).mro]
                               \o <<bases>>)
    IN [mro |-> <<class_name>> \o merged.mro, exc |-> merged.exc]

\* "for base_class in reversed(mro[1:])": the registry of a base that has
\* one, the options of the __dict__ of a base that has none (a mixin), from
\* position i of the mro down to position 2.
RECURSIVE inherited_options(_, _, _)
inherited_options(table, mro, i) ==
    IF i < 2 THEN <<>>
    ELSE (IF klass(table, mro[i]).ordered
          THEN klass(table, mro[i]).by_attribute
          ELSE klass(table, mro[i]).classdict)
         \o inherited_options(table, mro, i - 1)

\* _OrderedClass.__new__ for "class class_name(*bases): <classdict>"
ordered_class_new(table, class_name, bases, classdict) ==
    LET linear == mro_of(table, class_name, bases)
        reg == new_class(inherited_options(table, linear.mro, Len(linear.mro)),
                         classdict)
    IN IF linear.exc # ""
       THEN [NoClass EXCEPT !.exc = linear.exc, !.classdict = classdict]
       ELSE [defined |-> reg.exc = "", ordered |-> TRUE, mro |-> linear.mro,
             classdict |-> classdict,
             by_attribute |-> IF reg.exc = "" THEN reg.by_attribute ELSE <<>>,
             exc |-> reg.exc]

\* getattr(cls, attribute) on a class: the entry of the first class of the
\* mro whose __dict__ has the attribute, None when no class has it.
RECURSIVE type_getattr(_, _, _, _)
type_getattr(table, mro, i, attribute) ==
    IF i > Len(mro) THEN None
    ELSE LET body == klass(table, mro[i]).classdict IN
         IF \E k \in DOMAIN body : body[k].attribute = attribute
         THEN Some(body[CHOOSE k \in DOMAIN body : body[k].attribute = attribute])
         ELSE type_getattr(table, mro, i + 1, attribute)

\* The bodies of the classes of this specification.
MixinBodies(owner) ==
    LET age == [attribute |-> "age", name |-> "Age", class |-> "IntOption",
                owner |-> owner]
        name == [attribute |-> "name", name |-> "Name", class |-> "StringOption",
                 owner |-> owner]
    IN {<<>>, <<age>>, <<age, name>>}

\* The bases each class may be defined with.
BasesOf(class_name) ==
    CASE class_name = "A" -> {<<"MemoryConfig">>, <<"M", "MemoryConfig">>,
                              <<"MemoryConfig", "M">>}
      [] class_name = "B" -> {<<"A">>}
      [] class_name = "C" -> {<<"A">>}
      [] class_name = "D" -> {<<"B">>, <<"B", "C">>, <<"C", "B">>, <<"B", "M">>,
                              <<"M", "B">>, <<"M", "B", "C">>, <<"A", "B">>}

outside_mixins ==
    <<option, ALLOW_CACHE, one_shot, environ, config, cache, lock, thread, last,
      registry, chain, taken, json_file, json_config, sample>>

\* class M: <classdict>
DefineMixin(class_name, classdict) ==
    /\ classes[class_name] = NoClass
    /\ classes' = [classes EXCEPT ![class_name] =
                      [defined |-> TRUE, ordered |-> FALSE,
                       mro |-> <<class_name, "object">>, classdict |-> classdict,
                       by_attribute |-> <<>>, exc |-> ""]]
    /\ UNCHANGED outside_mixins

\* class class_name(*bases): <classdict>, the bases being defined
DefineConfig(class_name, bases, classdict) ==
    /\ classes[class_name] = NoClass
    /\ \A i \in DOMAIN bases : klass(classes, bases[i]).defined
    /\ classes' = [classes EXCEPT ![class_name] =
                      ordered_class_new(classes, class_name, bases, classdict)]
    /\ UNCHANGED outside_mixins

InitMixins ==
    /\ option = PlainDecl
    /\ ALLOW_CACHE = FALSE
    /\ InitConfigs
    /\ chain = NoChain
    /\ taken = NoSnapshot
    /\ classes = [cls \in MixinNames \cup ConfigNames |-> NoClass]
    /\ json_file = NoJsonFile
    /\ json_config = NoJsonConfig
    /\ sample = NoSample

NextMixins ==
    \/ \E m \in MixinNames : \E classdict \in MixinBodies(m) : DefineMixin(m, classdict)
    \/ \E c \in ConfigNames : \E classdict \in MixinBodies(c), bases \in BasesOf(c) :
          DefineConfig(c, bases, classdict)

SpecMixins == InitMixins /\ [][NextMixins]_vars

(***************************************************************************)
(* Shared vocabulary of the properties.                                    *)
(***************************************************************************)

\* The option's environment variable is present.
EnvPresent == ~IsNone(option.env_name) /\ Val(option.env_name) \in DOMAIN environ

\* The variable holds JSON that deserializes and validates to a native value.
EnvHoldsValue ==
    /\ EnvPresent
    /\ deserialize_json(environ[ENV_NAME]).exc = ""
    /\ ~IsNone(deserialize_json(environ[ENV_NAME]).v)
    /\ validate(option, deserialize_json(environ[ENV_NAME]).v) = ""

EnvValue == deserialize_json(environ[ENV_NAME]).v

\* The backend of instance c holds a raw value for the option.
Stored(c) == OPTION_NAME \in DOMAIN config[c]

\* Raw value r cannot be deserialized, or deserializes to an invalid value.
Broken(r) ==
    \/ deserialize(r).exc # ""
    \/ validate(option, deserialize(r).v) # ""

\* A native "no value" reads as the default.
OrDefault(python_value) ==
    IF IsNone(python_value) THEN option.default ELSE python_value

\* Number of times the resolver was invoked for a source.
Invocations(resolver, source) ==
    Cardinality({i \in DOMAIN resolver : resolver[i] = source})

OptionWriters == {"write", "write_json", "write_raw", "delete"}

\* The native value a successful option writer was asked to store.
WrittenValue(obs) ==
    IF obs.op = "write" THEN obs.arg
    ELSE IF obs.op = "write_json" THEN deserialize_json(Val(obs.arg)).v
    ELSE IF obs.op = "write_raw" THEN deserialize(Val(obs.arg)).v
    ELSE None

(***************************************************************************)
(* C1. read resolves in strict precedence, first hit wins: the env         *)
(* override when the variable is present (an unparsable or invalid one     *)
(* going to the resolver, i.e. the default), else the staged one-shot      *)
(* value, else the deserialized stored value, else the default; a hit      *)
(* that carries no value reads as the default.                             *)
(***************************************************************************)
C1_FirstHit(c) ==
    IF EnvPresent
    THEN IF EnvHoldsValue THEN EnvValue ELSE option.default
    ELSE IF one_shot.is_set THEN OrDefault(one_shot.value)
    ELSE IF Stored(c)
         THEN IF Broken(config[c][OPTION_NAME]) THEN option.default
              ELSE deserialize(config[c][OPTION_NAME]).v
         ELSE option.default

C1_ReadPrecedence ==
    last.op = "read" => last.value = C1_FirstHit(last.cfg)

(***************************************************************************)
(* C2. A read decided by a stored raw value that cannot be deserialized,   *)
(* or that deserializes to an invalid value, does not raise, returns the   *)
(* resolver's result (the default), and invokes the resolver exactly once. *)
(* No read raises, and no read invokes the resolver twice for the stored   *)
(* value.                                                                  *)
(***************************************************************************)
C2_BrokenStoredRead ==
    last.op = "read" /\ ~EnvPresent /\ ~one_shot.is_set
    /\ Stored(last.cfg) /\ Broken(config[last.cfg][OPTION_NAME])

C2_WitnessInvalidChoice ==
    /\ C2_BrokenStoredRead
    /\ deserialize(config[last.cfg][OPTION_NAME]).exc = ""
    /\ last.resolver = <<"config">>

(***************************************************************************)
(* C3. With caching allowed, a write whose raw value equals the one the    *)
(* cache holds for the name performs no backend write, so writing the      *)
(* same native value twice in a row issues at most one backend write.      *)
(***************************************************************************)
CachingAllowed == allow_cache_of(option, ALLOW_CACHE)

\* The step is a successful write of a native value through the option.
C3_WriteStep ==
    /\ last'.op \in {"write", "write_json", "write_raw"}
    /\ last'.exc = ""
    /\ ~IsNone(WrittenValue(last'))

C3_CachedWriteSkipsBackend ==
    [][/\ (/\ C3_WriteStep
           /\ CachingAllowed
           /\ OPTION_NAME \in DOMAIN cache[last'.cfg]
           /\ cache[last'.cfg][OPTION_NAME]
                 = Some(serialize(Val(WrittenValue(last')))))
          => (last'.sets = 0 /\ last'.dels = 0 /\ config' = config)
       /\ (/\ C3_WriteStep
           /\ CachingAllowed
           /\ last.op = "write" /\ last.exc = "" /\ last.cfg = last'.cfg
           /\ last.arg = WrittenValue(last'))
          => (last'.sets = 0 /\ last'.dels = 0 /\ last.sets <= 1)
      ]_vars

C3_Witness ==
    /\ last.op = "write" /\ last.exc = "" /\ ~IsNone(last.arg)
    /\ CachingAllowed
    /\ last.sets = 0
    /\ last.before.stored = Some(serialize(Val(last.arg)))

(***************************************************************************)
(* C4. A read with caching allowed whose name has a cache entry, the       *)
(* known-absent marker included, returns that entry without calling the    *)
(* backend; every other read calls the backend once and stores the result  *)
(* in the cache.                                                           *)
(***************************************************************************)
C4_Backend(c, allow_cache) ==
    IF allow_cache /\ OPTION_NAME \in DOMAIN cache[c]
    THEN /\ last'.gets = 0
         /\ cache' = cache
    ELSE /\ last'.gets = 1
         /\ OPTION_NAME \in DOMAIN cache'[c]
         /\ cache'[c][OPTION_NAME] = DictGet(config[c], OPTION_NAME)

C4_Returned(c, allow_cache) ==
    IF allow_cache /\ OPTION_NAME \in DOMAIN cache[c]
    THEN cache[c][OPTION_NAME]
    ELSE DictGet(config[c], OPTION_NAME)

\* The option's read consults the getter when neither the environment nor a
\* one-shot value decided it.
C4_ReadConsultsGetter == last'.source = "config" \/ last'.gets > 0

C4_CachedReadSkipsBackend ==
    [][/\ last'.op = "get_value" =>
             /\ C4_Backend(last'.cfg, last'.arg)
             /\ last'.value = C4_Returned(last'.cfg, last'.arg)
       /\ last'.op = "read" =>
             IF C4_ReadConsultsGetter
             THEN /\ C4_Backend(last'.cfg, CachingAllowed)
                  /\ last'.source = "config" =>
                        last'.value
                          = deserialize(Val(C4_Returned(last'.cfg, CachingAllowed))).v
             ELSE last'.gets = 0 /\ cache' = cache
      ]_vars

\* A cached read of the known-absent marker.
C4_Witness ==
    /\ last.op = "get_value" /\ last.arg = TRUE
    /\ last.gets = 0 /\ IsNone(last.value)

C4_WitnessReadThrough ==
    /\ last.op = "get_value" /\ last.arg = FALSE
    /\ last.gets = 1 /\ ~IsNone(last.value)

(***************************************************************************)
(* C5. A staged one-shot value is cleared by the next write or delete of   *)
(* the option: with no env override present, read then returns the         *)
(* written value (the default after a delete), and the one-shot value is   *)
(* not read again until a new one is staged.                               *)
(***************************************************************************)
C5_SuccessfulWriter == last.op \in OptionWriters /\ last.exc = ""

C5_OneShotClearedByWrite ==
    /\ [](C5_SuccessfulWriter =>
            /\ ~one_shot.is_set
            /\ ~EnvPresent => ReadOf(last.cfg).value = OrDefault(WrittenValue(last))
            /\ ReadOf(last.cfg).source # "one_shot")
    /\ [][(~one_shot.is_set /\ one_shot'.is_set) => last'.op = "one_shot"]_vars
    /\ [](~one_shot.is_set => ReadOf(Main).source # "one_shot")

C5_Witness ==
    /\ last.op = "write" /\ last.exc = "" /\ ~IsNone(last.arg)
    /\ last.before.is_set
    /\ ~EnvPresent
    /\ ReadOf(last.cfg).value = last.arg

C5_WitnessDelete ==
    /\ last.op = "delete" /\ last.before.is_set /\ ~IsNone(last.before.stored)
    /\ ~EnvPresent /\ ~IsNone(option.default)
    /\ ReadOf(last.cfg).value = option.default

(***************************************************************************)
(* C6. The one-shot override is scoped to the Config instance through      *)
(* which it was staged: staging or clearing it through one instance does   *)
(* not change what read returns through any other instance sharing the     *)
(* Option declaration.                                                     *)
(***************************************************************************)
C6_OneShotScopedToInstance ==
    [][\A c \in Configs :
          (last'.op \in {"one_shot", "write", "delete"} /\ last'.cfg # c)
          => ReadOf(c)'.value = ReadOf(c).value]_vars

(***************************************************************************)
(* C7. With no env override present, a write of v followed by a write of   *)
(* None or a delete makes read return the default; while the environment   *)
(* variable holds a value, read returns that value before and after the    *)
(* delete.                                                                 *)
(***************************************************************************)
\* The operation deleted: del, or a writer handed None / JSON null.
C7_Deleted(obs) ==
    /\ obs.op \in OptionWriters /\ obs.exc = ""
    /\ IsNone(WrittenValue(obs))

C7_WitnessEnv ==
    /\ C7_Deleted(last) /\ ~IsNone(last.before.stored)
    /\ EnvHoldsValue /\ ~IsNone(option.default)
    /\ EnvValue # option.default
    /\ ReadOf(last.cfg).value = EnvValue

(***************************************************************************)
(* C8. Writing JSON null or native None through any writer is equivalent   *)
(* to deleting the option: each leaves the backend, the cache entry and    *)
(* the one-shot state as the delete does.                                  *)
(***************************************************************************)
C8_Left(w) == [one_shot |-> w.one_shot, config |-> w.config, cache |-> w.cache,
               exc |-> w.exc]

C8_OfDelete(c) ==
    C8_Left(del_value_for_option_name(option, one_shot, config[c], cache[c],
                                      ALLOW_CACHE))

C8_NullWriteIsDelete ==
    /\ [](\A c \in Configs :
            /\ C8_Left(set_value_for_option_name(option, one_shot, config[c],
                          cache[c], ALLOW_CACHE, None)) = C8_OfDelete(c)
            /\ C8_Left(set_json_value_for_option_name(option, one_shot, config[c],
                          cache[c], ALLOW_CACHE, "null")) = C8_OfDelete(c)
            /\ C8_Left(fset(option, one_shot, config[c], cache[c], ALLOW_CACHE,
                          None))
                  = C8_Left(fdel(option, one_shot, config[c], cache[c], ALLOW_CACHE)))
    /\ [][(C7_Deleted(last') /\ last'.op # "delete") =>
             /\ C8_Left([one_shot |-> one_shot', config |-> config'[last'.cfg],
                         cache |-> cache'[last'.cfg], exc |-> last'.exc])
                   = C8_OfDelete(last'.cfg)
             /\ last'.sets = 0]_vars

C8_Witness ==
    /\ last.op = "write_json" /\ last.arg = Some("null") /\ last.exc = ""
    /\ last.before.is_set /\ ~IsNone(last.before.stored)
    /\ last.dels = 1
    /\ ~one_shot.is_set /\ ~Stored(last.cfg)
    /\ cache[last.cfg][OPTION_NAME] = None

(***************************************************************************)
(* C9. For one Config instance, at most one thread at a time executes a    *)
(* backend primitive or reads or updates the cache, when every caller      *)
(* uses the lock-guarded entry points or calls the lock-free ones inside   *)
(* a scoped acquisition of the lock.                                       *)
(***************************************************************************)
\* Thread t is between taking the lock and releasing it.
InLock(t) == thread[t].pc \in {"body", "lock_free", "release"}

\* Thread t is inside a lock-free accessor: at a primitive or at the cache.
AtBackend(t) == thread[t].pc = "lock_free"

C9_OneThreadAtBackend ==
    /\ [](Cardinality({t \in Threads : AtBackend(t)}) <= 1)
    /\ [](Cardinality({t \in Threads : InLock(t)}) <= 1)
    /\ [](\A t \in Threads : InLock(t) => lock[Main])
    /\ [][(config' # config \/ cache' # cache) =>
             \E t \in Threads :
                /\ AtBackend(t) /\ lock[Main]
                /\ \A u \in Threads \ {t} : ~InLock(u) /\ thread'[u] = thread[u]]_vars

\* One thread is inside an accessor while the other waits for the lock.
C9_Witness ==
    /\ thread["t1"].pc = "lock_free" /\ thread["t1"].scoped
    /\ thread["t2"].pc = "acquire"
    /\ Stored(Main)

(***************************************************************************)
(* C10. The Config lock is released on every exit path: after a scoped     *)
(* block or a lock-guarded entry point returns or raises the lock is       *)
(* free, so a later lock-guarded call by any thread completes.             *)
(***************************************************************************)
C10_LockReleasedOnEveryExit ==
    /\ []((\A t \in Threads : ~InLock(t)) => ~lock[Main])
    /\ [][\A t \in Threads :
             (thread[t].pc # "idle" /\ thread'[t].pc = "idle") => ~lock'[Main]]_vars
    /\ (lock[Main] ~> ~lock[Main])
    /\ \A t \in Threads :
          (thread[t].pc = "acquire" /\ ~thread[t].scoped) ~>
             (\/ thread[t].pc = "lock_free"
              \/ \E u \in Threads \ {t} : InLock(u))

\* A block left by an exception, with the lock free afterwards.
C10_Witness ==
    /\ last.op = "scoped_block" /\ last.exc = "Exception"
    /\ ~lock[Main]
    /\ \A t \in Threads : thread[t].pc \in {"idle", "acquire"}
    /\ \E t \in Threads : thread[t].pc = "acquire"

C10_WitnessEntryPoint ==
    /\ last.op = "entry_point" /\ last.exc = "Exception"
    /\ ~lock[Main]

(***************************************************************************)
(* C11. The Config lock is non-reentrant: a thread that holds the scoped   *)
(* lock and calls a lock-guarded entry point of the same Config never      *)
(* gets past that call's acquire; it keeps the lock, so no other thread    *)
(* gets it either.                                                         *)
(***************************************************************************)
C11_Reentered(t) == thread[t].pc = "reacquire"

C11_ReentryDeadlocks ==
    /\ [](\A t \in Threads :
            C11_Reentered(t) => lock[Main] /\ ~acquire(lock, Main).enabled)
    /\ [][\A t \in Threads :
             C11_Reentered(t) =>
                /\ thread'[t] = thread[t]
                /\ lock'[Main]
                /\ config' = config /\ cache' = cache
                /\ \A u \in Threads :
                      thread[u].pc = "acquire" => thread'[u].pc = "acquire"]_vars

\* A thread re-entered through an option read while the other waits.
C11_Witness ==
    /\ C11_Reentered("t1") /\ last.op = "reenter" /\ last.arg = Some("fget")
    /\ thread["t2"].pc = "acquire"
    /\ lock[Main]

(***************************************************************************)
(* C12. For any interleaving of concurrent get_instance calls on one       *)
(* Config type the constructor runs at most once and every call returns    *)
(* the same instance, an object of that type; distinct Config types get    *)
(* distinct instances.                                                     *)
(***************************************************************************)
C12_Runs(cls) == Cardinality({i \in DOMAIN constructed : constructed[i] = cls})

ReadThrough(c) == chain_read_value(chain, environ, c)

\* The temporary config decides the chain read.
TemporaryDecides ==
    ReadThrough(Temporary).source # "default" /\ ~IsNone(ReadThrough(Temporary).value)

\* Positions of the chain whose config reads from a source other than default.
NonDefault == {i \in DOMAIN chain.order : ReadThrough(chain.order[i]).source # "default"}

FirstNonDefault == CHOOSE i \in NonDefault : \A j \in NonDefault : i <= j

\* Config c holds a stored value for "age".
ChainStored(c) == OPTION_NAME \in DOMAIN chain.config[c]

\* The environment variable of the Option object config c reads through is
\* present.
ChainEnvPresent(c) ==
    /\ ~IsNone(chain.option[option_owner(chain.order, c)].env_name)
    /\ ENV_NAME \in DOMAIN environ

(***************************************************************************)
(* C13. When the temporary config does not decide, a chain read evaluates  *)
(* Option.read on the declaring configs in chain order and returns the     *)
(* first result whose source is not default: the configs after it are not  *)
(* consulted and the defaults of the configs before it are ignored.        *)
(***************************************************************************)
C13_FirstNonDefaultWins ==
    [][(last'.op = "chain_read" /\ ~TemporaryDecides /\ NonDefault # {}) =>
          /\ last'.exc = ""
          /\ last'.value = ReadThrough(chain.order[FirstNonDefault]).value
          /\ last'.source = ReadThrough(chain.order[FirstNonDefault]).source
          /\ last'.arg = <<Temporary>> \o SubSeq(chain.order, 1, FirstNonDefault)
          /\ \A i \in DOMAIN chain.order :
                i > FirstNonDefault =>
                   chain'.cache[chain.order[i]] = chain.cache[chain.order[i]]]_vars

\* The first config reads its default 1, the second its stored 2: 2 is read.
C13_Witness ==
    /\ last.op = "chain_read" /\ last.arg = <<Temporary, "a", "b">>
    /\ chain.option["a"].default = Some(1)
    /\ ReadThrough("a").source = "default"
    /\ last.source = "config" /\ last.value = Some(2)

\* The first config's stored value is read and the second is not consulted,
\* although it holds a value.
C13_WitnessNotConsulted ==
    /\ last.op = "chain_read" /\ last.arg = <<Temporary, "a">>
    /\ last.source = "config"
    /\ ChainStored("b") /\ chain.config["b"][OPTION_NAME] # chain.config["a"][OPTION_NAME]

(***************************************************************************)
(* C14. When every config in the chain resolves the attribute from its     *)
(* default, the chain read returns the default of the first config in      *)
(* chain order.                                                            *)
(***************************************************************************)
C14_AllDefault == last.op = "chain_read" /\ ~TemporaryDecides /\ NonDefault = {}

C14_FirstConfigDefault ==
    C14_AllDefault => last.value = chain.option[chain.order[1]].default

(***************************************************************************)
(* C14, amended. When every config in the chain resolves the attribute     *)
(* from its default, the chain read returns the first default in chain     *)
(* order that is not None, and None when no config has a default; every    *)
(* config of the chain has been consulted.                                 *)
(***************************************************************************)
C14_Defaults == {i \in DOMAIN chain.order : ~IsNone(chain.option[chain.order[i]].default)}

C14_FirstDefault ==
    IF C14_Defaults = {} THEN None
    ELSE chain.option[chain.order[CHOOSE i \in C14_Defaults :
                                     \A j \in C14_Defaults : i <= j]].default

C14_FirstNonNoneDefault ==
    C14_AllDefault =>
       /\ last.value = C14_FirstDefault
       /\ last.source = "default"
       /\ last.arg = <<Temporary>> \o chain.order

\* Both configs have a default and the first one's is read.
C14_Witness ==
    /\ C14_AllDefault
    /\ chain.option["a"].default = Some(1) /\ chain.option["b"].default = Some(2)
    /\ last.value = Some(1)

(***************************************************************************)
(* C15. In a chain of A then B, where A has no explicit value and no       *)
(* default and B has a default and no explicit value, the chain read       *)
(* returns B's default; once A's value is set explicitly, the chain read   *)
(* returns A's value regardless of B's stored value, default or            *)
(* environment. The scenario has nothing set in the temporary config, no   *)
(* one-shot value staged and no environment variable read by A.            *)
(***************************************************************************)
C15_Scenario ==
    /\ IsNone(chain.option["a"].default)
    /\ ~ChainStored(Temporary)
    /\ ~chain.one_shot["a"].is_set
    /\ ~ChainEnvPresent("a")

C15_ChainPrecedence ==
    /\ (/\ C15_Scenario /\ ~ChainStored("a")
         /\ ~ChainStored("b") /\ ~ChainEnvPresent("b")
         /\ ~IsNone(chain.option["b"].default))
        => chain_getattr(chain, environ).value = chain.option["b"].default
    /\ (C15_Scenario /\ ChainStored("a"))
        => chain_getattr(chain, environ).value
              = deserialize(chain.config["a"][OPTION_NAME]).v

\* A's value was set after B's default had been read.
C15_Witness ==
    /\ C15_Scenario /\ last.op = "chain_read"
    /\ chain.option["b"].default = Some(2)
    /\ ChainStored("a") /\ chain.config["a"][OPTION_NAME] = "1" /\ ChainStored("b")
    /\ last.value = Some(1)

C15_WitnessDefault ==
    /\ C15_Scenario /\ last.op = "chain_read"
    /\ ~ChainStored("a") /\ ~ChainStored("b") /\ ~ChainEnvPresent("b")
    /\ last.value = Some(2)

(***************************************************************************)
(* C16. The chain read returns the temporary config's value whenever one   *)
(* is set there, ahead of every member's stored value, except that an      *)
(* environment override present for the option takes precedence; once the  *)
(* temporary value is deleted, the chain read is the ordinary chain        *)
(* resolution.                                                             *)
(***************************************************************************)
C16_EnvHoldsValue ==
    /\ ChainEnvPresent(Temporary)
    /\ deserialize_json(environ[ENV_NAME]).exc = ""
    /\ ~IsNone(deserialize_json(environ[ENV_NAME]).v)

C16_TemporaryFirst ==
    /\ (ChainStored(Temporary) /\ ~ChainEnvPresent(Temporary))
        => chain_getattr(chain, environ).value
              = deserialize(chain.config[Temporary][OPTION_NAME]).v
    /\ (ChainStored(Temporary) /\ C16_EnvHoldsValue)
        => chain_getattr(chain, environ).value = deserialize_json(environ[ENV_NAME]).v
    /\ ~ChainStored(Temporary)
        => chain_getattr(chain, environ).value
              = chain_loop(chain, environ, 1, None, chain.cache, <<>>).value

(***************************************************************************)
(* C17. After reset() the backend holds no value for any option of the     *)
(* type and the cache entry of each is the known-absent marker, so with    *)
(* no env override present every option reads its default; this holds      *)
(* whatever the cache held before the call and whether or not caching is   *)
(* allowed.                                                                *)
(***************************************************************************)
C17_Names == {options[i].name : i \in DOMAIN options}

C17_ReadAfter(o) ==
    read_value(o, one_shot, environ, config[last.cfg], cache[last.cfg], ALLOW_CACHE)

C17_WitnessMarker ==
    /\ last.op = "reset" /\ last.dels = 0
    /\ ~Stored(last.cfg)

(***************************************************************************)
(* C18. Writing a value that fails validation (a non-member of the         *)
(* declared choices) through any writer (native, raw or JSON) raises       *)
(* ValidationError to the caller and leaves the backend's stored value     *)
(* for the option unchanged.                                               *)
(***************************************************************************)
\* The operation was handed a native value outside the declared choices.
C18_NonMember(obs) ==
    /\ obs.op \in {"write", "write_json", "write_raw"}
    /\ ~IsNone(WrittenValue(obs))
    /\ ~IsNone(option.choices)
    /\ Val(WrittenValue(obs)) \notin Val(option.choices)

C18_InvalidWriteRaises ==
    [][C18_NonMember(last') =>
          /\ last'.exc = "ValidationError"
          /\ last'.sets = 0 /\ last'.dels = 0
          /\ config' = config
          /\ cache' = cache]_vars

\* A JSON write of a non-member over a stored member.
C18_Witness ==
    /\ C18_NonMember(last) /\ last.op = "write_json"
    /\ last.exc = "ValidationError"
    /\ last.before.stored = Some("1")
    /\ Stored(last.cfg) /\ config[last.cfg][OPTION_NAME] = "1"

C18_WitnessRaw ==
    /\ C18_NonMember(last) /\ last.op = "write_raw"
    /\ last.exc = "ValidationError"

(***************************************************************************)
(* C19. When the option's env override is present but cannot be parsed or  *)
(* fails validation, read does not raise and returns the resolver's        *)
(* result (the option's default); the staged one-shot value and the        *)
(* stored value are not used for that read.                                *)
(***************************************************************************)
\* The variable is present and holds JSON that does not parse, or parses to
\* a native value outside the declared choices.
C19_EnvBroken ==
    /\ EnvPresent
    /\ \/ json_loads(environ[ENV_NAME]).exc # ""
       \/ /\ ~IsNone(json_loads(environ[ENV_NAME]).v)
          /\ ~IsNone(option.choices)
          /\ Val(json_loads(environ[ENV_NAME]).v) \notin Val(option.choices)

C19_BrokenEnvUsesResolver ==
    (last.op = "read" /\ C19_EnvBroken) =>
       /\ last.exc = ""
       /\ last.value = resolve_value(option, "", environ[ENV_NAME], "env").v
       /\ last.source \notin {"one_shot", "config"}

(***************************************************************************)
(* C20. An env variable that is present and holds JSON null is still an    *)
(* override, distinct from the variable being absent: read returns the     *)
(* option's default and not the stored value.                              *)
(***************************************************************************)
C20_EnvNull == EnvPresent /\ environ[ENV_NAME] = "null"

C20_NullEnvReadsDefault ==
    (last.op = "read" /\ C20_EnvNull) =>
       /\ last.value = option.default
       /\ last.source # "config"

(***************************************************************************)
(* C21. Every by-name accessor (the native, raw and JSON getters and       *)
(* setters, the deleter, the one-shot setters, and restore_snapshot)       *)
(* called with a name absent from the registry fails with the              *)
(* unknown-option-name error (KeyError) and changes neither the backend,   *)
(* the cache nor the one-shot state.                                       *)
(***************************************************************************)
\* The operation was a by-name accessor given an unknown name, or a restore
\* of a snapshot that holds an unknown key.
C21_NameAbsent(obs) ==
    \/ obs.op \in ByNameAccessors \cup OneShotSetters
    \/ /\ obs.op = "restore_snapshot"
       /\ \E i \in DOMAIN obs.arg : IsNone(option_for_name(option_names, obs.arg[i][1]))

C21_UnknownNameFailsLoudly ==
    [][C21_NameAbsent(last') =>
          /\ last'.exc = "KeyError"
          /\ config' = config
          /\ cache' = cache
          /\ one_shot' = one_shot]_vars

(***************************************************************************)
(* Vocabulary of the class properties.                                     *)
(***************************************************************************)
\* The entries of an ordered dict.
Entries(entries) == {entries[i] : i \in DOMAIN entries}

\* The position of entry e in an ordered dict that holds it.
Position(entries, e) == CHOOSE i \in DOMAIN entries : entries[i] = e

\* Declaration d of the subclass body re-declares inherited option e: the
\* same attribute bound to an option of the same storage name.
Redeclares(d, e) == d.attribute = e.attribute /\ d.name = e.name

\* The declarations of the body of SubMyConfig that re-declare an option of
\* MyConfig's registry, where neither the registry nor the body binds the
\* storage name to a second attribute (which is a duplicated option).
Redeclarations ==
    {d \in Entries(classes.SubMyConfig.classdict) :
        /\ \E e \in Entries(classes.MyConfig.by_attribute) : Redeclares(d, e)
        /\ \A e \in Entries(classes.MyConfig.by_attribute) \cup
                    Entries(classes.SubMyConfig.classdict) :
              e.name = d.name => e.attribute = d.attribute}

(***************************************************************************)
(* C22. When a subclass re-declares an inherited option (same attribute    *)
(* and storage name) with the same or a subtype Option class, the merged   *)
(* registry holds only the new declaration for that name and places it     *)
(* after the other options; re-declaring it with a class the inherited     *)
(* option's class is not a base of raises ValueError in the class          *)
(* statement.                                                              *)
(***************************************************************************)
\* The registry holds d and no other entry of its storage name or attribute.
C22_OnlyNew(d) ==
    /\ d \in Entries(classes.SubMyConfig.by_attribute)
    /\ d \in Entries(classes.SubMyConfig.by_name)
    /\ \A e \in Entries(classes.SubMyConfig.by_attribute) \cup
                Entries(classes.SubMyConfig.by_name) :
          (e.name = d.name \/ e.attribute = d.attribute) => e = d

C22_UnrelatedRaises ==
    (\E d \in Entries(classes.SubMyConfig.classdict),
        e \in Entries(classes.MyConfig.by_attribute) :
        Redeclares(d, e) /\ ~isinstance(d.class, e.class))
    => /\ classes.SubMyConfig.exc = "ValueError"
       /\ ~classes.SubMyConfig.defined

C22_WitnessUnrelated ==
    /\ classes.SubMyConfig.exc = "ValueError"
    /\ Len(classes.SubMyConfig.classdict) = 1
    /\ classes.SubMyConfig.classdict[1].class = "StringOption"
    /\ \E e \in Entries(classes.MyConfig.by_attribute) :
          Redeclares(classes.SubMyConfig.classdict[1], e) /\ e.class = "IntOption"

(***************************************************************************)
(* C23. No two entries of a registry share a storage name: two different   *)
(* attributes naming the same storage key, in one class body or across     *)
(* the inheritance graph, are an error in the class statement or in the    *)
(* constructor, so no instance exists of a class whose registry has such   *)
(* a pair.                                                                 *)
(***************************************************************************)
\* The option attributes a class has: those of its body, and those of its
\* bases that its body does not bind again.
C23_Attributes(cls) ==
    IF cls = "MyConfig"
    THEN {config_version} \cup Entries(classes.MyConfig.classdict)
    ELSE Entries(classes.SubMyConfig.classdict) \cup
         {e \in {config_version} \cup Entries(classes.MyConfig.classdict) :
             \A d \in Entries(classes.SubMyConfig.classdict) : d.attribute # e.attribute}

\* Two different attributes of the set name the same storage key.
C23_SharedName(decls) ==
    \E d, e \in decls : d.attribute # e.attribute /\ d.name = e.name

C23_Instantiated(cls) == classes[cls].instance = "instance"

C23_NoSharedStorageName ==
    \A cls \in ClassNames :
       /\ C23_Instantiated(cls) =>
             /\ ~C23_SharedName(Entries(classes[cls].by_attribute))
             /\ ~C23_SharedName(Entries(classes[cls].by_name))
             /\ ~C23_SharedName(C23_Attributes(cls))
       /\ (C23_SharedName(C23_Attributes(cls)) /\ classes[cls].classdict # <<>>) =>
             \/ classes[cls].exc = "ValueError" /\ ~classes[cls].defined
             \/ classes[cls].defined /\ classes[cls].instance \in {"", "AttributeError"}
       /\ (classes[cls].defined /\ classes[cls].instance # ""
             /\ C23_SharedName(Entries(classes[cls].by_attribute))) =>
             classes[cls].instance = "AttributeError"

\* One body binds two attributes to 'Age': the class is defined and its
\* constructor raises.
C23_Witness ==
    /\ C23_SharedName(Entries(classes.MyConfig.classdict))
    /\ classes.MyConfig.defined
    /\ classes.MyConfig.instance = "AttributeError"

\* Across the inheritance graph: MyConfig has an instance, SubMyConfig binds
\* another attribute to a storage name of MyConfig and cannot be constructed.
C23_WitnessInherited ==
    /\ C23_Instantiated("MyConfig")
    /\ ~C23_SharedName(Entries(classes.SubMyConfig.classdict))
    /\ C23_SharedName(C23_Attributes("SubMyConfig"))
    /\ classes.SubMyConfig.defined
    /\ classes.SubMyConfig.instance = "AttributeError"

\* What a read straight from the file gives: the stored value when the file
\* holds a usable one, the default otherwise.
C24_Backend == fget(option, NoShot, EmptyDict, conf(json_file), EmptyDict, FALSE).value

\* The last write through the JSONConfig failed on an I/O error, the file
\* being absent or read-only, and the file has not changed since.
C24_Dropped ==
    /\ json_config.exists
    /\ json_config.dropped # None
    /\ (json_file.shape = "missing" \/ ~json_file.writable)

\* The part of C24 that holds when caching is not allowed.
C24_DroppedWriteNotReadUncached ==
    (~ALLOW_CACHE /\ C24_Dropped) =>
        /\ last.op = "json_write" => last.exc = ""
        /\ last.op = "json_read" => last.value = C24_Backend

\* C24: a write the backend fails to store raises nothing to the caller and
\* is dropped; a later read of the option through the same Config returns
\* what the backend holds, or the default when it holds nothing, whether or
\* not caching is allowed.
C24_DroppedWriteNotRead ==
    C24_Dropped =>
        /\ last.op = "json_write" => last.exc = ""
        /\ last.op = "json_read" => last.value = C24_Backend

\* A read after a dropped write, without caching.
C24_WitnessUncached ==
    /\ ~ALLOW_CACHE /\ C24_Dropped /\ last.op = "json_read"
    /\ json_config.dropped = Some(Some(1))

\* C25: constructing a Config over a store whose content is unparsable or
\* foreign-shaped does not raise.
C25_ConstructsOverAnyStore ==
    (/\ last.op = "json_init"
     /\ last.cfg \in {"malformed", "array"}
     /\ BaseConfig_validate(classes.MyConfig.by_attribute) = "") => last.exc = ""

\* The part of C25 that holds: a store corrupted or replaced after the
\* Config was constructed makes the option read as its default when caching
\* is not allowed.
C25_CorruptedAfterStartReadsDefault ==
    (/\ ~ALLOW_CACHE
     /\ json_config.exists
     /\ json_file.shape \in {"malformed", "array"}
     /\ last.op = "json_read") =>
        /\ last.exc = ""
        /\ last.value = option.default
        /\ last.source = "default"

\* restore_snapshot(s) has just returned, s being the snapshot taken last.
C26_Restored ==
    /\ taken # NoSnapshot
    /\ last.op = "restore_snapshot"
    /\ last.arg = taken.items

\* C26: restore_snapshot(s), s returned by snapshot() on the same Config in
\* an earlier state, raises nothing and makes every option read the value it
\* had when s was taken, whatever was written, deleted or staged since; no
\* environment variable overrides the options.
C26_RestoreBringsBackValues ==
    C26_Restored =>
        /\ last.exc = ""
        /\ ReadOf(Main).value = taken.values.option
        /\ ReadOf(Main).exc = ""
        /\ config_version_fget(config[Main], cache[Main], ALLOW_CACHE).value
              = taken.values.config_version

\* A restore that changed what the option reads as: the backend was written
\* or deleted by it, and the value restored is the one the snapshot holds.
C26_Witness ==
    /\ C26_Restored
    /\ last.sets > 0
    /\ last.before.stored # None
    /\ last.before.stored # DictGet(config[Main], OPTION_NAME)
    /\ ReadOf(Main).value = taken.values.option

\* A restore of a snapshot taken when the option read as None, after a
\* value had been stored.
C26_WitnessDeleted ==
    /\ C26_Restored
    /\ last.dels > 0
    /\ last.before.stored # None
    /\ IsNone(taken.values.option)
    /\ IsNone(ReadOf(Main).value)

\* A conversion of a value that passed validate was taken there and back.
C27_RoundTripped == sample.op \in {"round_trip", "round_trip_json"}

\* The value is of the type the kind is named after, and is not nan.
C27_OwnType ==
    /\ sample.value.type = json_type[sample.kind]
    /\ ~(sample.value.type = "float" /\ sample.value.text = "nan")

\* The part of C27 that holds: the values of the kind's own type, nan
\* excepted, come back equal from both conversions.
C27_RoundTripsOwnType ==
    (C27_RoundTripped /\ C27_OwnType) =>
        /\ sample.exc = ""
        /\ py_eq(sample.result, sample.value)

\* C27: for every option kind and every value v that passes the kind's
\* validate, deserialize(serialize(v)) == v and
\* deserialize_json(serialize_json(v)) == v.
C27_RoundTrips ==
    C27_RoundTripped =>
        /\ sample.exc = ""
        /\ py_eq(sample.result, sample.value)

\* A float taken through the JSON conversions of a FloatOption.
C27_WitnessOwnType ==
    /\ sample.op = "round_trip_json"
    /\ sample.kind = "FloatOption"
    /\ sample.value = PyFloat("1.5")
    /\ sample.result = PyFloat("1.5")

\* The value written is no list for an ArrayOption, no dict for a
\* DictOption.
C28_NotAContainer ==
    sample.value.type # (IF sample.container = "ArrayOption" THEN "list" ELSE "dict")

\* A member of the value written fails the validate of the inner option.
C28_BadMember ==
    /\ sample.value_option # NoValueOption
    /\ \E i \in 1..Len(sample.value.items) :
          option_validate(sample.value_option, sample.value.items[i]) # ""

\* The part of C28 that holds: a value that is not a list, resp. not a dict,
\* is refused and nothing is stored.
C28_RejectsNonContainers ==
    (sample.op = "write" /\ C28_NotAContainer) =>
        /\ sample.exc = "ValidationError"
        /\ sample.stored = sample.before

\* C28: writing to an ArrayOption or DictOption a value that is not a
\* sequence, resp. mapping, or one with a member that fails the inner
\* option's validate, raises ValidationError and stores nothing.
C28_RejectsBadMembers ==
    (sample.op = "write" /\ (C28_NotAContainer \/ C28_BadMember)) =>
        /\ sample.exc = "ValidationError"
        /\ sample.stored = sample.before

\* A scalar written to an ArrayOption that held a list.
C28_WitnessNonContainer ==
    /\ sample.op = "write"
    /\ sample.container = "ArrayOption"
    /\ sample.value = PyInt("1")
    /\ sample.before # PyNone
    /\ sample.exc = "ValidationError"

\* The option's own allow_cache when it is True or False, the type's
\* ALLOW_CACHE when it is unset.
C29_OwnSetting ==
    IF IsNone(option.allow_cache) THEN ALLOW_CACHE ELSE Val(option.allow_cache)

\* The last operation went to the config's getter, resp. setter: a read
\* with no environment variable and no one-shot value, or a write of a
\* value that passed validate.
C29_ReadThroughGetter ==
    last.op = "read" /\ last.cfg = Main /\ ~one_shot.is_set /\ environ = EmptyDict

C29_WrittenThroughSetter ==
    last.op = "write" /\ last.cfg = Main /\ ~IsNone(last.arg) /\ last.exc = ""

\* With caching off for the call the backend is consulted every time.
C29_CacheBypassed ==
    /\ C29_ReadThroughGetter => last.gets = 1
    /\ C29_WrittenThroughSetter => last.sets = 1

\* The part of C29 that holds: an option whose allow_cache is unset follows
\* ALLOW_CACHE, and with neither set caching is off.
C29_UnsetFollowsConfig ==
    (IsNone(option.allow_cache) /\ ~ALLOW_CACHE) => C29_CacheBypassed

\* C29: the allow-cache flag an option passes to the config's getter,
\* setter and deleter is the option's own allow_cache when that is True or
\* False, and ALLOW_CACHE only when it is unset; a flag that is off makes
\* every read and write go to the backend.
C29_FlagIsOwnSetting == ~C29_OwnSetting => C29_CacheBypassed

\* A read that went to the backend although ALLOW_CACHE is unset and the
\* value was in the cache.
C29_WitnessUnset ==
    /\ IsNone(option.allow_cache) /\ ~ALLOW_CACHE
    /\ C29_ReadThroughGetter
    /\ last.source = "config"
    /\ last.gets = 1

\* A one-shot value of None is staged.
C30_NoneStaged == one_shot.is_set /\ IsNone(one_shot.value)

\* The operations that write or delete the option, or stage another
\* one-shot value.
C30_Writers ==
    {"write", "write_raw", "delete", "restore_snapshot",
     "one_shot", "one_shot_raw", "one_shot_json"}

\* This step staged None through set_one_shot_value_for_option_name, or
\* null through set_one_shot_json_value_for_option_name.
C30_StagesNone ==
    /\ \/ (last'.op = "one_shot" /\ IsNone(last'.arg))
       \/ (last'.op = "one_shot_json" /\ last'.arg = Some("null"))
    /\ last'.exc = ""

\* What the option reads as after this step.
C30_ReadAfter ==
    fget(option', one_shot', environ', config'[Main], cache'[Main], ALLOW_CACHE')

\* C30: staging a one-shot value of None, or of JSON null, makes the option
\* read as its default whatever the backend holds, and nothing but a write
\* or delete of the option, or another staging, ends that; a write or
\* delete that succeeds does end it.
C30_StagedNoneReadsDefault ==
    [][/\ C30_StagesNone =>
             (/\ one_shot'.is_set
              /\ IsNone(one_shot'.value)
              /\ C30_ReadAfter.value = option'.default
              /\ C30_ReadAfter.source = "default")
       /\ (C30_NoneStaged /\ last'.op = "read") =>
             (/\ last'.value = option.default
              /\ last'.source = "default"
              /\ last'.gets = 0)
       /\ (C30_NoneStaged /\ one_shot' # one_shot) => (last'.op \in C30_Writers)
       /\ (last'.op \in {"write", "delete"} /\ last'.exc = "") => ~one_shot'.is_set
      ]_vars

\* A read that gave the default because None is staged, while the backend
\* holds a value that is not the default.
C30_Witness ==
    /\ C30_NoneStaged
    /\ last.op = "read"
    /\ last.value = option.default
    /\ DictGet(config[Main], OPTION_NAME) = Some("1")
    /\ option.default # Some(1)

\* The same after staging JSON null by name.
C30_WitnessNull ==
    /\ C30_NoneStaged
    /\ last.op = "one_shot_json"
    /\ last.arg = Some("null")
    /\ DictGet(config[Main], OPTION_NAME) = Some("2")

\* The operations that read: attribute and by-name get, get_value, item
\* enumeration and snapshot.
C31_Readers == {"read", "get_value", "python_items", "snapshot"}

\* C31: reading never writes to or deletes from the backend; an option that
\* resolves from its default has no stored value after the read either.
C31_ReadsLeaveBackend ==
    [][last'.op \in C31_Readers =>
          (/\ config' = config
           /\ one_shot' = one_shot)
      ]_vars

\* A read that gave a default other than None and left the backend without
\* a value for the option.
C31_Witness ==
    /\ last.op = "read"
    /\ last.source = "default"
    /\ last.value = Some(1)
    /\ IsNone(DictGet(config[Main], OPTION_NAME))

\* The same for item enumeration.
C31_WitnessItems ==
    /\ last.op = "python_items"
    /\ last.source = "default"
    /\ last.value = Some(1)
    /\ IsNone(DictGet(config[Main], OPTION_NAME))

\* The constructor of the JSONConfig type has just run.
C32_Constructed == last.op = "json_init"

\* The type binds two attributes to one storage name.
C32_Duplicates == BaseConfig_validate(classes.MyConfig.by_attribute) # ""

\* The part of C32 that holds: validation comes before make_cache and
\* migrate, so a type with a duplicated name fails with AttributeError
\* whatever the file holds and an existing file is left as it was; after a
\* construction that succeeded over a writable file the file holds the
\* ConfigVersion marker equal to CONFIG_VERSION.
C32_ValidatedBeforeCacheAndMigrate ==
    C32_Constructed =>
        /\ C32_Duplicates =>
              (/\ last.exc = "AttributeError"
               /\ ~json_config.exists
               /\ last.cfg # "missing" => json_file.shape = last.cfg)
        /\ (last.exc = "" /\ json_file.writable) =>
              DictGet(conf(json_file), CONFIG_VERSION_OPTION_NAME) = Some(CONFIG_VERSION)

\* C32: constructing a Config validates the names first; if validation
\* fails no backend access happens: the store is as it was before the call.
C32_FailedValidationLeavesBackend ==
    (C32_Constructed /\ C32_Duplicates) =>
        /\ last.exc = "AttributeError"
        /\ json_file.shape = last.cfg

\* A construction of a type with a duplicated name over a malformed file.
C32_WitnessValidatedFirst ==
    /\ C32_Constructed
    /\ C32_Duplicates
    /\ last.cfg = "malformed"
    /\ last.exc = "AttributeError"

\* What the backend of the instance holds under a name before and after a
\* step.
C33_Held(name) == DictGet(config[Main], name)
C33_HeldAfter(name) == DictGet(config'[Main], name)

\* C33: rename_option(old, new, transform) with the raw value r stored
\* under old leaves transform(r), or r without a transform, under new and
\* nothing under old; with nothing under old it changes nothing in the
\* backend.
C33_RenameMovesValue ==
    [][last'.op = "rename_option" =>
          (IF ~IsNone(C33_Held(last'.arg[1]))
           THEN /\ C33_HeldAfter(last'.arg[2])
                      = apply_transform(last'.arg[3], Val(C33_Held(last'.arg[1])))
                /\ IsNone(C33_HeldAfter(last'.arg[1]))
           ELSE config' = config)
      ]_vars

\* A rename with a transform has moved a value: "-1" is under the new name,
\* the old name is gone.
C33_Witness ==
    /\ last.op = "rename_option"
    /\ last.arg = <<OPTION_NAME, NEW_OPTION_NAME, "negate">>
    /\ last.sets = 1
    /\ DictGet(config[Main], NEW_OPTION_NAME) = Some("-1")
    /\ IsNone(DictGet(config[Main], OPTION_NAME))

\* A rename of an absent name next to a value stored under the new name.
C33_WitnessAbsent ==
    /\ last.op = "rename_option"
    /\ last.arg[1] = OPTION_NAME
    /\ last.sets = 0
    /\ DictGet(config[Main], NEW_OPTION_NAME) = Some("1")

\* Every cache entry is what the backend dict holds under the name, the
\* known-absent marker None exactly when it holds nothing.
C34_Coherent(cch, cfgdict) ==
    \A name \in DOMAIN cch : cch[name] = DictGet(cfgdict, name)

\* The part of C34 that holds: on a MemoryConfig instance the cache agrees
\* with the backend after any sequence of reads, writes and deletes with any
\* mix of allow_cache flags.
C34_MemoryCacheMatchesBackend == C34_Coherent(cache[Main], config[Main])

\* The cache of the JSONConfig instance agrees with its file.
C34_JsonCoherent == C34_Coherent(json_config.cache, conf(json_file))
C34_JsonCoherentAfter == C34_Coherent(json_config'.cache, conf(json_file'))

\* C34: on a single Config instance whose backend has no other writer, a
\* set or delete through the instance leaves every cache entry equal to
\* what the backend holds for that name.
C34_CacheMatchesBackend ==
    [][(/\ json_config.exists
        /\ C34_JsonCoherent
        /\ last'.op \in {"json_write", "json_read"}) => C34_JsonCoherentAfter
      ]_vars

\* A value is cached on the MemoryConfig after writes with and without
\* caching, and it is the stored one.
C34_WitnessMemory ==
    /\ last.op = "set_value"
    /\ last.arg = Some("2")
    /\ cache[Main][OPTION_NAME] = Some("2")
    /\ DictGet(config[Main], OPTION_NAME) = Some("2")

\* The write and the read have both returned.
C35_BothReturned == sample.writer = "done" /\ sample.reader = "done"

\* The part of C35 that holds: with no one-shot value staged when the write
\* begins, the read returns the value from before or from after the write.
C35_BeforeOrAfterUnstaged ==
    (C35_BothReturned /\ ~sample.staged) => sample.result \in {sample.before, sample.after}

\* C35: a read that runs concurrently with a write or delete of the same
\* option by another thread returns the value a read returns before that
\* write or the value it returns after it, never a third value.
C35_BeforeOrAfter ==
    C35_BothReturned => sample.result \in {sample.before, sample.after}

\* A read that overlapped a write of 2 over a stored 1 and returned one of
\* the two.
C35_WitnessUnstaged ==
    /\ C35_BothReturned
    /\ ~sample.staged
    /\ sample.before = Some(1)
    /\ sample.after = Some(2)
    /\ sample.result = Some(2)
    /\ last.op = "store"

\* A value was written through an instance and the write returned.
C36_Wrote == last.op = "write" /\ ~IsNone(last.arg) /\ last.exc = ""

\* The part of C36 that holds: with caching not allowed, the write leaves
\* the shared backend holding serialize(v).
C36_UncachedWriteReachesBackend ==
    (C36_Wrote /\ ~allow_cache_of(option, ALLOW_CACHE))
        => DictGet(Backend, OPTION_NAME) = Some(serialize(Val(last.arg)))

\* C36: with two instances of one type over the same backend and caching
\* allowed, a write of v through one instance leaves the backend holding
\* serialize(v), even when the other instance changed the stored value
\* since the first instance last accessed it.
C36_WriteReachesBackend ==
    (C36_Wrote /\ allow_cache_of(option, ALLOW_CACHE))
        => DictGet(Backend, OPTION_NAME) = Some(serialize(Val(last.arg)))

\* An uncached write of a value the writing instance had cached while the
\* other instance has stored another one since.
C36_WitnessUncached ==
    /\ C36_Wrote
    /\ ~allow_cache_of(option, ALLOW_CACHE)
    /\ last.sets = 1
    /\ DictGet(cache[Other], OPTION_NAME) = Some(Some("2"))
    /\ last.cfg = Main
    /\ last.arg = Some(1)

\* The step is a write through instance Main that raised ValidationError.
C37_Rejected ==
    /\ last'.op \in {"write", "write_json", "write_raw"}
    /\ last'.exc = "ValidationError"

\* The part of C37 that holds: a rejected write leaves the stored value and
\* the cache entry as they were.
C37_RejectedWriteKeepsStored ==
    [][C37_Rejected => (config' = config /\ cache' = cache)]_vars

\* C37: a write rejected with ValidationError leaves the staged one-shot
\* value in place, together with the cache entry and the stored value, so a
\* read after the failed write returns what it returned before it.
C37_RejectedWriteKeepsOneShot ==
    [][C37_Rejected => (/\ one_shot' = one_shot
                        /\ config' = config
                        /\ cache' = cache
                        /\ ReadOf(Main).value = ReadOf(Main)'.value)]_vars

\* A write was rejected while a value was stored and no one-shot value was
\* staged.
C37_WitnessStored ==
    /\ last.op = "write"
    /\ last.exc = "ValidationError"
    /\ ~last.before.is_set
    /\ ~IsNone(last.before.stored)

\* The chain was read while the first member's stored value is corrupt and
\* resolved to that member's default, and the second member holds a stored
\* integer.
C38_Scenario ==
    /\ last.op = "chain_read"
    /\ last.exc = ""
    /\ ~TemporaryDecides
    /\ ChainStored("a")
    /\ deserialize(chain.config["a"][OPTION_NAME]).exc # ""
    /\ ReadThrough("a").value = chain.option["a"].default
    /\ ChainStored("b")
    /\ deserialize(chain.config["b"][OPTION_NAME]).exc = ""

\* What the second member explicitly stores.
C38_Later == ReadThrough("b").value

\* The part of C38 that holds: when the member's default is None, the chain
\* read goes on and returns the later member's stored value.
C38_CorruptWithoutDefaultGoesOn ==
    (C38_Scenario /\ IsNone(chain.option["a"].default)) => last.value = C38_Later

\* C38: a member whose stored value is corrupt and is resolved to that
\* member's default is treated like a member without a value: the chain
\* read goes on to the later members and returns a later member's
\* explicitly stored value.
C38_CorruptGoesOn == C38_Scenario => last.value = C38_Later

\* The chain read passed a corrupt first member and returned the second
\* member's stored 2.
C38_WitnessWithoutDefault ==
    /\ C38_Scenario
    /\ IsNone(chain.option["a"].default)
    /\ last.value = Some(2)
    /\ last.arg = <<Temporary, "a", "b">>

\* The step is restore_snapshot(s) directly after s = snapshot().
C39_RestoresAtOnce ==
    /\ last.op = "snapshot"
    /\ last'.op = "restore_snapshot"
    /\ last'.arg = taken.items

\* The part of C39 that holds: an option that resolved from its stored value
\* keeps that stored value and its source.
C39_StoredValueUnchanged ==
    [][(C39_RestoresAtOnce /\ ReadOf(Main).source = "config")
          => (/\ DictGet(config[Main], OPTION_NAME)' = DictGet(config[Main], OPTION_NAME)
              /\ ReadOf(Main)'.source = "config")]_vars

\* C39: restore_snapshot(snapshot()) with no operation in between leaves
\* the backend unchanged: an option that resolved from its default or from a
\* one-shot value is not given a stored value, and every option reports
\* the same source after the restore as before it.
C39_RestoreAtOnceChangesNothing ==
    [][C39_RestoresAtOnce
          => (/\ config' = config
              /\ ReadOf(Main)'.source = ReadOf(Main).source)]_vars

\* A snapshot restored at once while the option read its stored 1.
C39_WitnessStored ==
    /\ C26_Restored
    /\ last.exc = ""
    /\ last.before.stored = Some("1")
    /\ ~last.before.is_set
    /\ ReadOf(Main).source = "config"
    /\ ReadOf(Main).value = Some(1)
    /\ taken.values.option = Some(1)

\* The registry of class c holds, for every attribute, the Option that
\* attribute access on c resolves to.
C40_Agrees(c) ==
    \A i \in DOMAIN classes[c].by_attribute :
        type_getattr(classes, classes[c].mro, 1, classes[c].by_attribute[i].attribute)
            = Some(classes[c].by_attribute[i])

\* The config classes among the direct bases of c.
C40_ConfigBases(c) ==
    {k \in 2..Len(classes[c].mro) :
        /\ klass(classes, classes[c].mro[k]).ordered
        /\ \A j \in 2..(k - 1) :
              ~(klass(classes, classes[c].mro[j]).ordered
                /\ classes[c].mro[k] \in
                      {klass(classes, classes[c].mro[j]).mro[n] :
                          n \in DOMAIN klass(classes, classes[c].mro[j]).mro})}

\* The part of C40 that holds: a config type that derives from one config
\* base, with plain mixins before or after it, has a registry that agrees
\* with attribute access.
C40_OneConfigBaseAgrees ==
    \A c \in ConfigNames :
        (classes[c].defined /\ Cardinality(C40_ConfigBases(c)) = 1) => C40_Agrees(c)

\* C40: for every Config type, the Option the registry holds for an
\* attribute name is the Option that attribute access on the type resolves
\* to, for any multiple-inheritance arrangement of config bases and plain
\* mixins.
C40_RegistryAgrees ==
    \A c \in ConfigNames : classes[c].defined => C40_Agrees(c)

\* D(M, B) is defined while M and A both declare age: the registry and
\* attribute access both give M's option.
C40_WitnessMixin ==
    /\ classes["D"].defined
    /\ classes["D"].mro = <<"D", "M", "B", "A", "MemoryConfig", "BaseConfig", "object">>
    /\ \E k \in DOMAIN classes["A"].classdict : classes["A"].classdict[k].attribute = "age"
    /\ \E i \in DOMAIN classes["D"].by_attribute :
          /\ classes["D"].by_attribute[i].attribute = "age"
          /\ classes["D"].by_attribute[i].owner = "M"
    /\ C40_Agrees("D")

====
